---- MODULE Spec2Model ----
(***************************************************************************)
(* A model of the chart-capture / vision-analysis auto trader:             *)
(*   - the cycle scheduler of src/src/auto-trader.ts (runAutoTrader,       *)
(*     runAnalysisCycle, executeWithRetry, extractNextCheckInterval),      *)
(*   - the two external commands it spawns, seen through their exit code   *)
(*     and the files they leave (src/src/index.ts, src/src/vision-ai.ts,   *)
(*     src/src/features/vision-analysis.ts),                               *)
(*   - the capture orchestrator in its two variants                        *)
(*     (src/src/features/web-automation.ts, sequential on one session;     *)
(*     src/unnamed/part_001, one session per timeframe, joined by          *)
(*     Promise.all).                                                       *)
(*                                                                         *)
(* Specifications:                                                         *)
(*   Spec          the scheduler over MaxCycles cycles, the two commands   *)
(*                 seen through their exit codes and result files;         *)
(*   SpecFiles     the scheduler over MaxFileCycles cycles with the        *)
(*                 screenshot directory followed file by file;             *)
(*   SpecCapture   one run of the capture orchestrator, step by step;      *)
(*   SpecInterval  extractNextCheckInterval applied to a directory;        *)
(*   SpecPipeline  one run of executeVisionAnalysis, stage by stage;       *)
(*   SpecRuns      MaxRuns such runs on the same directories;              *)
(*   SpecCrop      cropImage applied to a batch of screenshots;            *)
(*   SpecDecision  makeMultiTimeframeDecision alone;                       *)
(*   SpecExtract   the parsing of a response in analyzeChartImage;         *)
(*   SpecCredential the scheduler's startup and one pipeline run, with     *)
(*                 and without the API key;                                *)
(*   SpecSettings  the chart settings handed to the capture sessions;      *)
(*   SpecArgs      parseArgs of auto-trader.ts applied to a command line;  *)
(*   SpecProgress  the scheduler under weak fairness of its steps.         *)
(***************************************************************************)
EXTENDS Integers, Sequences, FiniteSets, TLC

VARIABLES
  \* ---- scheduler process (auto-trader.ts) ----
  argOnce,              \* process.argv includes "--once"
  argContinuous,        \* process.argv includes "--continuous"
  hasApiKey,            \* process.env.OPENAI_API_KEY is set
  maxRetries,           \* config.maxRetries
  intervalMinutes,      \* config.intervalMinutes
  cropEnabled,          \* "--crop-screenshots" is among chartCaptureArgs
  horizon,              \* number of cycles the model follows the scheduler for
  pc,                   \* where runAutoTrader is suspended
  cycleNumber,          \* let cycleNumber
  consecutiveFailures,  \* let consecutiveFailures
  attempt,              \* executeWithRetry's loop variable
  sleepMinutes,         \* argument of the waitMinutes call in progress
  exitCode,             \* {} while the process runs, {code} once it has ended
  \* ---- history of the scheduler run (not read by the program) ----
  cyclesStarted,        \* number of runAnalysisCycle calls so far
  outcomes,             \* outcome of every finished cycle, in order
  stepRuns,             \* commands spawned by each step of the current cycle
  stepDelays,           \* retry delays slept by each step of the current cycle
  stepResult,           \* what executeWithRetry returned for each step
  lastCapture,          \* what the last capture command did
  lastVision,           \* what the last vision command did
  \* ---- file system shared by the commands ----
  screenshots,          \* screenshots/jupiter-<tf>.png
  cropped,              \* screenshots/jupiter-<tf>-cropped.png
  analysisDirExists,    \* the directory analysis-results exists
  analysisDir,          \* the files analysis-results/analysis-<timestamp>.<ext>
  now,                  \* wall clock, in ticks
  \* ---- one run of the capture orchestrator ----
  variant,              \* which executeMultiTimeframeAutomation is linked in
  requested,            \* config.timeframes
  capPc,                \* where the orchestrator is
  loopIndex,            \* the sequential loop's i, counted from 1
  tasks,                \* per requested timeframe: how far its capture is
  pages,                \* per browser session: whether open, and its page
  results,              \* the results array
  finished,             \* history: the order in which the captures settled
  \* ---- runs of the vision pipeline (executeVisionAnalysis) ----
  pipePc,               \* where executeVisionAnalysis is suspended
  imageFiles,           \* const imageFiles
  analysisResults,      \* per image: what its analysis promise resolved to
  individualAnalyses,   \* const individualAnalyses
  tradingDecision,      \* const tradingDecision
  comprehensiveAnalysis,\* const comprehensiveAnalysis
  finalVerdict,         \* const finalVerdict
  result,               \* what executeVisionAnalysis returned
  responses,            \* history: the response each image analysis received
  calls,                \* history: the calls made to the reasoning service
  written,              \* history: the result files written, run by run
  runs,                 \* history: number of pipeline runs started
  labels,               \* per image: the timeframe member of its analysis
  completed,            \* history: the images in the order their service calls ended
  \* ---- one batch of cropImage calls (image-cropping.ts) ----
  cropPc,               \* where the batch is
  cropConfig,           \* the CropConfig object handed to every cropImage call
  cropRequest,          \* history: the rectangle as the caller requested it
  images,               \* the size of every image of the batch, in order
  extracts,             \* per image cropped so far: the region extracted from it
  \* ---- the chart settings singleton and the sessions that use it ----
  sharedSettings,       \* chartSettings.settings, the sources of its charts
  sessions,             \* per capture session: its timeframe and what it injected
  \* ---- the command line of the scheduler (parseArgs of auto-trader.ts) ----
  argv,                 \* process.argv.slice(2)
  traderConfig          \* const config of main, once parseArgs has run

schedVars == <<argOnce, argContinuous, hasApiKey, maxRetries, intervalMinutes,
               cropEnabled, horizon, pc, cycleNumber, consecutiveFailures, attempt,
               sleepMinutes, exitCode, cyclesStarted, outcomes, stepRuns,
               stepDelays, stepResult, lastCapture, lastVision>>
fsVars == <<screenshots, cropped, analysisDirExists, analysisDir, now>>
capVars == <<variant, requested, capPc, loopIndex, tasks, pages, results, finished>>
pipeVars == <<pipePc, imageFiles, analysisResults, individualAnalyses, tradingDecision,
              comprehensiveAnalysis, finalVerdict, result, responses, calls, written,
              runs, labels, completed>>
cropVars == <<cropPc, cropConfig, cropRequest, images, extracts>>
settingsVars == <<sharedSettings, sessions>>
argsVars == <<argv, traderConfig>>
vars == <<schedVars, fsVars, capVars, pipeVars, cropVars, settingsVars, argsVars>>

-----------------------------------------------------------------------------
(* Bounds of the model *)

MaxCycles == 4
MaxFileCycles == 2
MaxRetriesBound == 2
NumTimeframes == 2
TicksPerSecond == 2
MaxStoredFiles == 2
MaxRequested == 2
MaxContent == 5
MaxRuns == 2
MaxPixels == 2
MaxBatch == 2
MaxOptions == 3

(* Program constants *)

maxConsecutiveFailures == 3
MIN_INTERVAL == 2
MAX_INTERVAL == 60
DefaultIntervalMinutes == 13
RetryWaitCap == 5
ErrorWaitMinutes == 5

Min(a, b) == IF a <= b THEN a ELSE b
Max(a, b) == IF a >= b THEN a ELSE b

\* the default timeframe list of both commands, cut to NumTimeframes labels
AllTimeframes == <<"5m", "15m", "1h", "2h", "6h">>
DefaultTimeframes == SubSeq(AllTimeframes, 1, Min(NumTimeframes, Len(AllTimeframes)))
Labels == {AllTimeframes[i] : i \in 1..Len(AllTimeframes)}
Range(s) == {s[i] : i \in 1..Len(s)}

\* intervals a caller may configure with --interval
Intervals == {3, DefaultIntervalMinutes}
\* parseInt(args[++i] || "13", 10) is stored as it is: intervals a caller may
\* configure outside the bounds of the clamp
IntervalsOutOfBounds == {MIN_INTERVAL - 1, MAX_INTERVAL + 30}

-----------------------------------------------------------------------------
(* extractNextCheckInterval, auto-trader.ts *)

\* a JSON value read back from a result file, with its typeof
Undefined == [type |-> "undefined", val |-> 0]
Num(n) == [type |-> "number", val |-> n]
Str(n) == [type |-> "string", val |-> n]

\* file.startsWith("analysis-") && file.endsWith(".json")
IsAnalysisJson(f) == f.ext = "json"

\* .sort().reverse()[0]: the names differ only in their fixed-width timestamp,
\* so the greatest name is the one with the greatest timestamp
LatestFile(files) == CHOOSE f \in files : \A g \in files : g.ts <= f.ts

ClampTooLow(n) == Max(MIN_INTERVAL, Min(MAX_INTERVAL - 1, n))
\* Math.max(MIN_INTERVAL, Math.min(MAX_INTERVAL, nextCheckMinutes))
Clamp(n) == Max(MIN_INTERVAL, Min(MAX_INTERVAL, n))

ExtractNextCheckInterval(dirExists, dir, defaultInterval) ==
  IF ~dirExists THEN defaultInterval
  ELSE LET files == {f \in dir : IsAnalysisJson(f)} IN
    IF files = {} THEN defaultInterval
    ELSE LET latest == LatestFile(files) IN
      IF ~latest.parsable THEN defaultInterval        \* JSON.parse throws: catch
      ELSE IF latest.ncm.type = "number" THEN Clamp(latest.ncm.val)
      ELSE defaultInterval

-----------------------------------------------------------------------------
(* generateTimestamp and the save functions, vision-analysis.ts *)

\* now.toISOString().replace(/[:.]/g, "-").slice(0, 19): the clock cut to seconds
GenerateTimestamp(t) == t \div TicksPerSecond

\* fs.writeFileSync(filepath, ...): creates the file or replaces its content
WriteFile(dir, f) == {g \in dir : ~(g.ts = f.ts /\ g.ext = f.ext)} \cup {f}

\* the file saveAnalysisToJson writes: analysis-<timestamp>.json, holding the
\* verdict of the result
JsonFile(t, ncm) ==
  [ts |-> GenerateTimestamp(t), ext |-> "json", parsable |-> TRUE, ncm |-> ncm]
\* the file saveAnalysisToText writes: analysis-<timestamp>.txt
TextFile(t) ==
  [ts |-> GenerateTimestamp(t), ext |-> "txt", parsable |-> FALSE, ncm |-> Undefined]

-----------------------------------------------------------------------------
(* The capture command "npm run start -- --multi-timeframe ...", index.ts *)

\* the screenshot directory after the orchestrator has run: every timeframe it
\* captured has a file written in this cycle, the other files are left as found
AfterCapture(shots, captured) ==
  [tf \in DOMAIN shots |-> IF tf \in captured THEN "fresh" ELSE shots[tf]]

\* cropTimeframeScreenshots: in the order of the list, every timeframe whose
\* jupiter-<tf>.png exists is cropped into jupiter-<tf>-cropped.png; cropImage
\* throwing on one image ends the loop (nDone images were cropped before it)
AfterCrop(T, shots, crp, nDone) ==
  LET existing == SelectSeq(T, LAMBDA tf : shots[tf] # "absent")
      done == {existing[i] : i \in 1..Min(nDone, Len(existing))}
  IN [tf \in DOMAIN crp |-> IF tf \in done THEN shots[tf] ELSE crp[tf]]

\* executeMultiTimeframeAutomation's "success: successCount > 0"
OrchestratorSuccess(captured) == captured # {}

\* runAutomation and main of index.ts: on the multi-timeframe path a failed
\* result and a thrown error are both logged and the function returns, so the
\* process ends with the default exit code
CaptureExitCode(orchestratorSuccess) == 0

\* executeCommand: child "close" gives success = (code === 0); child "error"
\* gives success = false
CommandSuccess(spawnError, code) == ~spawnError /\ code = 0

-----------------------------------------------------------------------------
(* The vision command "npm run start-vision-ai", vision-ai.ts and
   vision-analysis.ts *)

\* checkPrerequisites: the key is set and one of the default timeframes has an
\* original screenshot
CheckPrerequisites(key, shots) ==
  key /\ \E tf \in Range(DefaultTimeframes) : shots[tf] # "absent"

\* executeVisionAnalysis, the search for chart images: for each timeframe in
\* order the cropped file if it exists, else the original if it exists
ImageFiles(T, shots, crp) ==
  LET found == SelectSeq(T, LAMBDA tf : crp[tf] # "absent" \/ shots[tf] # "absent")
  IN [i \in 1..Len(found) |->
        [timeframe |-> found[i],
         path |-> IF crp[found[i]] # "absent" THEN "cropped" ELSE "original",
         content |-> IF crp[found[i]] # "absent" THEN crp[found[i]] ELSE shots[found[i]]]]

\* analysisResults.filter(analysis !== null): the analyses that succeeded
IndividualAnalyses(imgs, okIdx) ==
  {imgs[i] : i \in okIdx \cap (1..Len(imgs))}

\* executeVisionAnalysis: success unless the key is missing, no image is found,
\* no analysis succeeds, or the decision, synthesis or verdict stage throws
PipelineSuccess(key, imgs, okIdx, failStage) ==
  /\ key
  /\ Len(imgs) > 0
  /\ IndividualAnalyses(imgs, okIdx) # {}
  /\ failStage = "none"

\* runVisionAnalysis: process.exit(1) when the prerequisites are missing, when
\* the result is a failure, and when displayAnalysisSummary throws on a result
\* that lacks a field it dereferences
VisionExitCode(prereq, success, displayThrows) ==
  IF ~prereq \/ ~success \/ displayThrows THEN 1 ELSE 0

PipelineStages == {"none", "decision", "synthesis", "verdict"}
\* what the reasoning service may put into the verdict's nextCheckMinutes
NcmChoices == {Undefined, Num(2 * MAX_INTERVAL)}

-----------------------------------------------------------------------------
(* The responses of the reasoning service and what the pipeline stages make of
   them, vision-analysis.ts. A response text is a sequence of tokens: the two
   braces, "key" for the members of the requested object that the program
   dereferences later on (signals of a ChartAnalysis, action of a
   TradingDecision, riskAssessment and quantitativeMetrics of a
   ComprehensiveAnalysis, action, confidence and positionSize of a
   TradingVerdict), "more" for its other required members, "txt" for prose. *)

\* a value the pipeline has not produced (yet): undefined
None == [ok |-> FALSE, error |-> "none", fields |-> {}]
NoVerdict == [ok |-> FALSE, error |-> "none", fields |-> {}, action |-> "none",
              confidence |-> 0, positionSize |-> 0]
NotReturned == [success |-> FALSE, individualAnalyses |-> <<>>, tradingDecision |-> None,
                finalVerdict |-> NoVerdict, error |-> "none"]

Tokens == {"{", "}", "key", "more", "txt"}
Members == {"key", "more"}
RequiredFields == {"key", "more"}

\* the texts of at most n tokens
Contents(n) == UNION {[1..k -> Tokens] : k \in 0..n}

Positions(s, tok) == {i \in 1..Len(s) : s[i] = tok}
FirstIndex(s, tok) ==
  IF Positions(s, tok) = {} THEN 0
  ELSE CHOOSE i \in Positions(s, tok) : \A j \in Positions(s, tok) : i <= j
LastIndex(s, tok) ==
  IF Positions(s, tok) = {} THEN 0
  ELSE CHOOSE i \in Positions(s, tok) : \A j \in Positions(s, tok) : j <= i

\* the match of content.match(/\{[\s\S]*\}/): null, or jsonMatch[0]
NoMatch == <<>>
\* from the first opening brace to the first closing brace after it
JsonMatchShortest(content) ==
  LET i == FirstIndex(content, "{")
      after == {j \in Positions(content, "}") : j > i}
  IN IF i = 0 \/ after = {} THEN NoMatch
     ELSE SubSeq(content, i, CHOOSE j \in after : \A k \in after : j <= k)
\* the pattern is greedy: from the first opening brace that has a closing brace
\* after it, that is the first one, to the last closing brace of the text
JsonMatch(content) ==
  LET i == FirstIndex(content, "{")
      j == LastIndex(content, "}")
  IN IF i = 0 \/ j < i THEN NoMatch ELSE SubSeq(content, i, j)

\* the nesting depth after the first k tokens of s
Depth(s, k) ==
  Cardinality({i \in 1..k : s[i] = "{"}) - Cardinality({i \in 1..k : s[i] = "}"})

\* JSON.parse(text) returns an object: text is one brace pair around members
\* and nested objects; it throws a SyntaxError on anything else
IsJsonObject(text) ==
  /\ Len(text) >= 2
  /\ text[1] = "{"
  /\ text[Len(text)] = "}"
  /\ \A k \in 1..(Len(text) - 1) : Depth(text, k) >= 1
  /\ Depth(text, Len(text)) = 0
  /\ \A k \in 1..Len(text) : text[k] # "txt"

\* the members of the object JSON.parse(text) returns
ParsedFields(text) ==
  {text[k] : k \in {i \in 2..Len(text) : Depth(text, i - 1) = 1 /\ text[i] \in Members}}

Threw(error) == [ok |-> FALSE, error |-> error, fields |-> {}]
Returned(fields) == [ok |-> TRUE, error |-> "none", fields |-> fields]

\* the part common to analyzeChartImage, makeMultiTimeframeDecision and
\* generateComprehensiveAnalysis once the service call has ended: the content
\* check, the match, JSON.parse with a type assertion and no validation
ParseResponse(serviceOk, content) ==
  IF ~serviceOk THEN Threw("service")
  ELSE IF content = <<>> THEN Threw("No response content from OpenAI")
  ELSE IF JsonMatch(content) = NoMatch THEN Threw("No JSON found in response")
  ELSE IF ~IsJsonObject(JsonMatch(content)) THEN Threw("SyntaxError")
  ELSE Returned(ParsedFields(JsonMatch(content)))

\* analyzeChartImage: imageToBase64 throws on a file that cannot be read, before
\* the service is called
AnalyzeChartImage(readable, serviceOk, content) ==
  IF ~readable THEN Threw("Image file not found")
  ELSE ParseResponse(serviceOk, content)

\* the timeframe member of a parsed analysis: what the service wrote into the
\* object; the timeframe argument of analyzeChartImage goes into the prompt
\* and into the log lines only
NoLabel == "none"
OtherLabel == "4h"
ServiceLabels(timeframe) == {timeframe, OtherLabel}
TimeframeOf(analysis, label) == IF analysis.ok THEN label ELSE NoLabel

\* executeVisionAnalysis, the wrapper around analyzeChartImage: a throw is
\* logged and becomes null
Null == [ok |-> FALSE, error |-> "null", fields |-> {}]
Pending == [ok |-> FALSE, error |-> "pending", fields |-> {}]
CaughtToNull(analysis) == IF analysis.ok THEN analysis ELSE Null

FilterInCompletionOrder(res) ==
  LET done == SelectSeq(completed, LAMBDA i : res[i] # Null)
  IN [k \in 1..Len(done) |-> res[done[k]]]
FilterDropsLast(res) ==
  LET kept == SelectSeq(res, LAMBDA a : a # Null)
  IN IF kept = <<>> THEN kept ELSE SubSeq(kept, 1, Len(kept) - 1)
\* analysisResults.filter(analysis !== null), in the order of the images
FilterNotNull(res) == SelectSeq(res, LAMBDA a : a # Null)

\* getMultiTimeframePrompt: a.signals.join(...) throws a TypeError on an
\* analysis without signals
PromptThrows(analyses) == \E i \in 1..Len(analyses) : "key" \notin analyses[i].fields

\* makeMultiTimeframeDecision up to its await: the prompt is built and the
\* service is called; there is no test of the length of `analyses`
DecisionCallMade(analyses) == ~PromptThrows(analyses)

\* makeMultiTimeframeDecision after the await: fullDecision.action.toUpperCase()
\* throws a TypeError on a decision without action
DecisionOf(serviceOk, content) ==
  LET parsed == ParseResponse(serviceOk, content) IN
  IF parsed.ok /\ "key" \notin parsed.fields THEN Threw("TypeError") ELSE parsed

\* what the service may write into the timeframes member of its decision:
\* nothing, or a list of its own making
ServiceTimeframes ==
  {<<>>, [k \in 1..(NumTimeframes + 1) |-> Returned(RequiredFields)]}

FullDecisionAsParsed(decision, theirs, analyses) ==
  [ok |-> decision.ok, error |-> decision.error, fields |-> decision.fields,
   timeframes |-> theirs]
\* const fullDecision = {...decision, timeframes: analyses}: the members of the
\* parsed object, its timeframes member replaced by the analyses handed in
FullDecision(decision, theirs, analyses) ==
  [ok |-> decision.ok, error |-> decision.error, fields |-> decision.fields,
   timeframes |-> analyses]

\* generateFinalVerdict up to its await: the prompt reads
\* comprehensiveAnalysis.riskAssessment.riskLevel and
\* comprehensiveAnalysis.quantitativeMetrics.timeframeAlignment
VerdictCallMade(synthesis) == "key" \in synthesis.fields

\* the function_call of the verdict response: its arguments text and the
\* values it gives to action, confidence and positionSize
Arguments(text, action, confidence, positionSize) ==
  [text |-> text, action |-> action, confidence |-> confidence,
   positionSize |-> positionSize]
NoFunctionCall == Arguments(<<>>, "none", 0, 0)

\* generateFinalVerdict after the await: JSON.parse(functionCall.arguments) as
\* TradingVerdict, no validation
VerdictOf(serviceOk, args) ==
  IF ~serviceOk THEN [NoVerdict EXCEPT !.error = "service"]
  ELSE IF args.text = <<>>
  THEN [NoVerdict EXCEPT !.error = "No function call response from OpenAI"]
  ELSE IF ~IsJsonObject(args.text) THEN [NoVerdict EXCEPT !.error = "SyntaxError"]
  ELSE LET given == "key" \in ParsedFields(args.text) IN
       [ok |-> TRUE, error |-> "none", fields |-> ParsedFields(args.text),
        action |-> IF given THEN args.action ELSE "none",
        confidence |-> IF given THEN args.confidence ELSE 0,
        positionSize |-> IF given THEN args.positionSize ELSE 0]

AbortsNever(value) == FALSE
\* await of a stage function that threw: the throw goes on to the catch block
\* of executeVisionAnalysis and the statements after the await are not run
Aborts(value) == ~value.ok

GateOpen(analyses) == FALSE
\* if (individualAnalyses.length === 0) throw
NoSuccessfulAnalyses(analyses) == Len(analyses) = 0

\* the actions playTradingSound has a beep pattern for
TradingActions == {"LONG", "SHORT", "HOLD"}

\* additional alert pattern for high confidence trades: confidence >= 80
HighConfidence == 80

\* playTradingSound (sound effects enabled, the beep fallback on): the custom
\* sound file, then the system sound, whose failures are caught and give
\* false, then generateBeep for the three trading actions. generateBeep spawns
\* the player with no listener for the child's "error" event: when the player
\* cannot be spawned the event is emitted on the next tick and is unhandled
PlayTradingSound(action, customSuccess, systemSuccess, beepSpawns) ==
  IF customSuccess THEN "custom"
  ELSE IF systemSuccess THEN "system"
  ELSE IF action \notin TradingActions THEN "silent"
  ELSE IF beepSpawns THEN "beep"
  ELSE "unhandled"

\* playTradingAlert: the sound, and for a confidence of 80 or more a 300 ms
\* timer and the sound again. An unhandled "error" event is an uncaught
\* exception as soon as the program waits for the timer: the process ends.
\* Without the timer the caller runs on to its return before the event
PlayTradingAlert(action, confidence, customSuccess, systemSuccess, beepSpawns) ==
  LET played == PlayTradingSound(action, customSuccess, systemSuccess, beepSpawns)
  IN IF played = "unhandled" /\ confidence >= HighConfidence THEN "crashed"
     ELSE played

\* the catch block of executeVisionAnalysis
Failure(error) == [NotReturned EXCEPT !.error = error]

-----------------------------------------------------------------------------
(* The scheduler, auto-trader.ts *)

cfgVars == <<argOnce, argContinuous, hasApiKey, maxRetries, intervalMinutes,
            cropEnabled, horizon>>

NoRuns == [capture |-> 0, vision |-> 0]
NoResult == [capture |-> "none", vision |-> "none"]
NoCapture == [ran |-> FALSE, captured |-> {}, success |-> FALSE, ok |-> FALSE]
NoVision == [ran |-> FALSE, prereq |-> FALSE, success |-> FALSE, analyzed |-> {},
             ncm |-> Undefined, saved |-> 0, ok |-> FALSE]

\* a screenshot written in an earlier cycle is no longer this cycle's
Aged(files) == [tf \in DOMAIN files |-> IF files[tf] = "fresh" THEN "stale" ELSE files[tf]]

LoopRunsOnceMore(a, n) == a <= n + 1
\* executeWithRetry: for (attempt = 1; attempt <= maxRetries; attempt++)
LoopContinues(a, n) == a <= n
\* executeWithRetry: if (attempt < maxRetries) sleep retryDelay
RetryDelayNeeded(a, n) == a < n
ThresholdTooLate(cf) == cf > maxConsecutiveFailures
\* a loop that never gives up
ThresholdNeverReached(cf) == FALSE
\* runAutoTrader: if (consecutiveFailures >= maxConsecutiveFailures) break
ThresholdReached(cf) == cf >= maxConsecutiveFailures
\* main: runAutoTrader returns after the loop and main resolves; process.exit
\* is not called, the process ends with the default exit code
StoppedExitCode == 0
\* runAutoTrader: process.exit(1) when OPENAI_API_KEY is missing
MissingKeyExitCode == 1

Running(step) == IF step = "capture" THEN "captureRunning" ELSE "visionRunning"
Delay(step) == IF step = "capture" THEN "captureDelay" ELSE "visionDelay"

\* the part of the scheduler's state that the steps of a cycle change
Ctl == [pc |-> pc, attempt |-> attempt, cf |-> consecutiveFailures,
        sleep |-> sleepMinutes, exit |-> exitCode, outcomes |-> outcomes,
        runs |-> stepRuns, delays |-> stepDelays, result |-> stepResult]

SetCtl(c) ==
  /\ pc' = c.pc
  /\ attempt' = c.attempt
  /\ consecutiveFailures' = c.cf
  /\ sleepMinutes' = c.sleep
  /\ exitCode' = c.exit
  /\ outcomes' = c.outcomes
  /\ stepRuns' = c.runs
  /\ stepDelays' = c.delays
  /\ stepResult' = c.result

\* a loop that calls runAnalysisCycle again without awaiting waitMinutes
CycleReturnedWithoutSleep(c, success, dirExists, dir) ==
  [c EXCEPT !.outcomes = Append(@, IF success THEN "ok" ELSE "fail"),
            !.cf = IF success THEN 0 ELSE c.cf + 1,
            !.pc = "captureRunning", !.attempt = 1,
            !.runs = [capture |-> 1, vision |-> 0]]

\* runAutoTrader, the try block after runAnalysisCycle has returned `success`
CycleReturned(c, success, dirExists, dir) ==
  LET c1 == [c EXCEPT !.outcomes = Append(@, IF success THEN "ok" ELSE "fail")]
      wait == [c1 EXCEPT !.cf = 0, !.pc = "waiting",
                 !.sleep = ExtractNextCheckInterval(dirExists, dir, intervalMinutes)]
  IN
  IF success
  THEN IF cycleNumber > 1 \/ argContinuous THEN wait
       ELSE IF ~argOnce THEN wait
       ELSE [c1 EXCEPT !.cf = 0, !.pc = "stopped", !.exit = {StoppedExitCode}]
  ELSE IF ThresholdReached(c.cf + 1)
       THEN [c1 EXCEPT !.cf = c.cf + 1, !.pc = "stopped", !.exit = {StoppedExitCode}]
       ELSE [c1 EXCEPT !.cf = c.cf + 1, !.pc = "waiting",
                       !.sleep = Min(intervalMinutes, RetryWaitCap)]

\* a catch block that waits without counting the cycle as a failure
CycleThrewUncounted(c) ==
  [c EXCEPT !.outcomes = Append(@, "error"), !.pc = "waitingOnError",
            !.sleep = ErrorWaitMinutes]

\* runAutoTrader, the catch block
CycleThrew(c) ==
  LET c1 == [c EXCEPT !.outcomes = Append(@, "error")] IN
  IF ThresholdReached(c.cf + 1)
  THEN [c1 EXCEPT !.cf = c.cf + 1, !.pc = "stopped", !.exit = {StoppedExitCode}]
  ELSE [c1 EXCEPT !.cf = c.cf + 1, !.pc = "waitingOnError", !.sleep = ErrorWaitMinutes]

\* a cycle that goes on to step 2 whatever step 1 returned
StepReturnedAnyway(c, step, ok, dirExists, dir) ==
  LET c1 == [c EXCEPT !.result[step] = IF ok THEN "ok" ELSE "failed"] IN
  IF step = "capture" THEN [c1 EXCEPT !.pc = "stepGap"]
  ELSE CycleReturned(c1, ok, dirExists, dir)

\* runAnalysisCycle after executeWithRetry has returned `ok` for `step`
StepReturned(c, step, ok, dirExists, dir) ==
  LET c1 == [c EXCEPT !.result[step] = IF ok THEN "ok" ELSE "failed"] IN
  IF step = "capture"
  THEN IF ok THEN [c1 EXCEPT !.pc = "stepGap"]
       ELSE CycleReturned(c1, FALSE, dirExists, dir)
  ELSE CycleReturned(c1, ok, dirExists, dir)

\* executeWithRetry: attempt++, the loop test, and the next executeCommand
NextIteration(c, step, dirExists, dir) ==
  LET a == c.attempt + 1 IN
  IF LoopContinues(a, maxRetries)
  THEN [c EXCEPT !.attempt = a, !.runs[step] = @ + 1, !.pc = Running(step)]
  ELSE StepReturned([c EXCEPT !.attempt = a], step, FALSE, dirExists, dir)

\* executeWithRetry after executeCommand has resolved with success = ok
AttemptDone(c, step, ok, dirExists, dir) ==
  IF ok THEN StepReturned(c, step, TRUE, dirExists, dir)
  ELSE IF RetryDelayNeeded(c.attempt, maxRetries)
       THEN [c EXCEPT !.pc = Delay(step), !.delays[step] = @ + 1]
       ELSE NextIteration(c, step, dirExists, dir)

\* runAnalysisCycle is called: step 1 spawns the capture command, attempt 1
BeginCycle ==
  /\ cyclesStarted' = cyclesStarted + 1
  /\ SetCtl([Ctl EXCEPT !.pc = "captureRunning", !.attempt = 1,
                        !.runs = [capture |-> 1, vision |-> 0],
                        !.delays = NoRuns, !.result = NoResult])
  /\ lastCapture' = NoCapture
  /\ lastVision' = NoVision
  /\ screenshots' = Aged(screenshots)
  /\ cropped' = Aged(cropped)
  /\ UNCHANGED <<analysisDirExists, analysisDir, now>>

\* no orchestrator run is followed
CaptureIdle ==
  /\ variant = "none"
  /\ requested = <<>>
  /\ capPc = "idle"
  /\ loopIndex = 0
  /\ tasks = <<>>
  /\ pages = <<>>
  /\ results = <<>>
  /\ finished = <<>>

\* the rectangle of a CropConfig and the region of an image
Rect(x, y, width, height) == [x |-> x, y |-> y, width |-> width, height |-> height]
NoRect == Rect(0, 0, 0, 0)

\* no batch of crops is followed
CropIdle ==
  /\ cropPc = "idle"
  /\ cropConfig = NoRect
  /\ cropRequest = NoRect
  /\ images = <<>>
  /\ extracts = <<>>

\* no command line is followed
NoConfig == [chartCaptureArgs |-> <<>>, visionAiArgs |-> <<>>, parsed |-> FALSE]
ArgsIdle ==
  /\ argv = <<>>
  /\ traderConfig = NoConfig

\* no capture session that applies chart settings is followed
SettingsIdle ==
  /\ sharedSettings = <<>>
  /\ sessions = <<>>

\* no run of the vision pipeline is followed step by step
PipelineIdle ==
  /\ pipePc = "idle"
  /\ imageFiles = <<>>
  /\ analysisResults = <<>>
  /\ individualAnalyses = <<>>
  /\ tradingDecision = None
  /\ comprehensiveAnalysis = None
  /\ finalVerdict = NoVerdict
  /\ result = NotReturned
  /\ responses = <<>>
  /\ calls = <<>>
  /\ written = <<>>
  /\ runs = 0
  /\ labels = <<>>
  /\ completed = <<>>

\* the scheduler is not followed
SchedulerIdle ==
  /\ argOnce = FALSE
  /\ argContinuous = FALSE
  /\ hasApiKey = TRUE
  /\ maxRetries = 1
  /\ intervalMinutes = DefaultIntervalMinutes
  /\ cropEnabled = TRUE
  /\ horizon = 0
  /\ pc = "idle"
  /\ cycleNumber = 1
  /\ consecutiveFailures = 0
  /\ attempt = 0
  /\ sleepMinutes = 0
  /\ exitCode = {}
  /\ cyclesStarted = 0
  /\ outcomes = <<>>
  /\ stepRuns = NoRuns
  /\ stepDelays = NoRuns
  /\ stepResult = NoResult
  /\ lastCapture = NoCapture
  /\ lastVision = NoVision
  /\ screenshots = [tf \in Range(DefaultTimeframes) |-> "absent"]
  /\ cropped = [tf \in Range(DefaultTimeframes) |-> "absent"]
  /\ analysisDirExists = FALSE
  /\ analysisDir = {}
  /\ now = 0

\* the scheduler before runAutoTrader is called, configured with one of the
\* intervals and followed for `cycles` cycles
InitScheduler(intervals, cycles) ==
  /\ argOnce \in BOOLEAN
  /\ argContinuous \in BOOLEAN
  /\ hasApiKey \in BOOLEAN
  /\ maxRetries \in 1..MaxRetriesBound
  /\ intervalMinutes \in intervals
  /\ cropEnabled = TRUE
  /\ horizon = cycles
  /\ pc = "init"
  /\ cycleNumber = 1
  /\ consecutiveFailures = 0
  /\ attempt = 0
  /\ sleepMinutes = 0
  /\ exitCode = {}
  /\ cyclesStarted = 0
  /\ outcomes = <<>>
  /\ stepRuns = NoRuns
  /\ stepDelays = NoRuns
  /\ stepResult = NoResult
  /\ lastCapture = NoCapture
  /\ lastVision = NoVision
  /\ screenshots = [tf \in Range(DefaultTimeframes) |-> "absent"]
  /\ cropped = [tf \in Range(DefaultTimeframes) |-> "absent"]
  /\ analysisDirExists = FALSE
  /\ analysisDir = {}
  /\ now = 0
  /\ CaptureIdle
  /\ PipelineIdle
  /\ CropIdle
  /\ SettingsIdle
  /\ ArgsIdle

Init == InitScheduler(Intervals, MaxCycles)

\* a scheduler that begins its first cycle without looking at the key
StartWithoutKeyCheck ==
  /\ pc = "init"
  /\ BeginCycle
  /\ UNCHANGED <<cycleNumber, cfgVars, capVars, pipeVars, cropVars, settingsVars, argsVars>>

\* runAutoTrader up to the first await: the key check, then the first cycle
Start ==
  /\ pc = "init"
  /\ IF ~hasApiKey
     THEN /\ pc' = "exited"
          /\ exitCode' = {MissingKeyExitCode}
          /\ UNCHANGED <<cycleNumber, consecutiveFailures, attempt, sleepMinutes,
                         cyclesStarted, outcomes, stepRuns, stepDelays, stepResult,
                         lastCapture, lastVision, fsVars>>
     ELSE BeginCycle /\ UNCHANGED cycleNumber
  /\ UNCHANGED <<cfgVars, capVars, pipeVars, cropVars, settingsVars, argsVars>>

\* the capture command has ended, or could not be spawned: what the scheduler
\* does with executeCommand's result
CaptureEnded(spawnError, captured) ==
  LET ok == CommandSuccess(spawnError, CaptureExitCode(OrchestratorSuccess(captured)))
  IN /\ lastCapture' = [ran |-> ~spawnError, captured |-> captured,
                        success |-> ~spawnError /\ OrchestratorSuccess(captured),
                        ok |-> ok]
     /\ SetCtl(AttemptDone(Ctl, "capture", ok, analysisDirExists, analysisDir))
     /\ UNCHANGED <<cfgVars, capVars, pipeVars, cropVars, settingsVars, argsVars, cycleNumber, cyclesStarted, lastVision,
                    analysisDirExists, analysisDir, now>>

\* the capture command ends; the screenshot directory is left to the command
CaptureCloses ==
  /\ pc = "captureRunning"
  /\ \E spawnError \in BOOLEAN, captured \in SUBSET Range(DefaultTimeframes) :
       /\ spawnError => captured = {}
       /\ CaptureEnded(spawnError, captured)
  /\ UNCHANGED <<screenshots, cropped>>

\* the retry delay of executeWithRetry is over
RetryDelayEnds ==
  /\ pc \in {"captureDelay", "visionDelay"}
  /\ LET step == IF pc = "captureDelay" THEN "capture" ELSE "vision" IN
       SetCtl(NextIteration(Ctl, step, analysisDirExists, analysisDir))
  /\ lastCapture' = NoCapture
  /\ lastVision' = [NoVision EXCEPT !.saved = lastVision.saved]
  /\ UNCHANGED <<cfgVars, capVars, pipeVars, cropVars, settingsVars, argsVars, cycleNumber, cyclesStarted, fsVars>>

\* the 2000 ms pause between the steps is over: step 2 spawns the vision command
StepGapEnds ==
  /\ pc = "stepGap"
  /\ SetCtl([Ctl EXCEPT !.pc = "visionRunning", !.attempt = 1, !.runs["vision"] = 1])
  /\ lastCapture' = NoCapture
  /\ UNCHANGED <<cfgVars, capVars, pipeVars, cropVars, settingsVars, argsVars, cycleNumber, cyclesStarted, lastVision, fsVars>>

\* the vision command has ended, or could not be spawned, having found the
\* screenshot directory in the state shots, crp; okChoices are the sets of
\* images whose analysis may succeed, textChoices says whether the service may
\* leave out a member that saveAnalysisToText dereferences: the text save then
\* throws after the record was written and the result is a failure. The
\* summary display reads no member that the text save does not read, so it
\* does not throw on a result that was saved
VisionEnded(shots, crp, okChoices, textChoices) ==
  \E spawnError \in BOOLEAN, okIdx \in okChoices,
     failStage \in PipelineStages, ncm \in NcmChoices, textThrows \in textChoices :
    LET prereq == CheckPrerequisites(hasApiKey, shots)
        imgs == ImageFiles(DefaultTimeframes, shots, crp)
        reached == /\ ~spawnError
                   /\ prereq
                   /\ PipelineSuccess(hasApiKey, imgs, okIdx, failStage)
        success == reached /\ ~textThrows
        analyzed == IF success THEN IndividualAnalyses(imgs, okIdx) ELSE {}
        code == VisionExitCode(prereq, success, FALSE)
        ok == CommandSuccess(spawnError, code)
        t == now + TicksPerSecond
        dir == IF ~reached THEN analysisDir
               ELSE IF textThrows THEN WriteFile(analysisDir, JsonFile(t, ncm))
               ELSE WriteFile(WriteFile(analysisDir, JsonFile(t, ncm)), TextFile(t))
    IN /\ ~reached => (okIdx = {} /\ failStage = "none" /\ ncm = Undefined
                         /\ ~textThrows)
       /\ analysisDir' = dir
       /\ analysisDirExists' = (analysisDirExists \/ reached)
       /\ now' = IF reached THEN t ELSE now
       /\ lastVision' = [ran |-> ~spawnError, prereq |-> ~spawnError /\ prereq,
                         success |-> success, analyzed |-> analyzed, ncm |-> ncm,
                         saved |-> lastVision.saved + (IF reached THEN 1 ELSE 0),
                         ok |-> ok]
       /\ SetCtl(AttemptDone(Ctl, "vision", ok, analysisDirExists', dir))
       /\ UNCHANGED <<cfgVars, capVars, pipeVars, cropVars, settingsVars, argsVars, cycleNumber, cyclesStarted, lastCapture,
                      screenshots, cropped>>

\* what the vision command may find in the screenshot directory when the
\* directory is left to the capture command: no screenshot, or one of every
\* timeframe
NoFiles == [tf \in Range(DefaultTimeframes) |-> "absent"]
AllFiles == [tf \in Range(DefaultTimeframes) |-> "stale"]
FoundFiles == {NoFiles, AllFiles}

\* the vision command ends; every image analysis succeeds or none does, and
\* the result has the members the text save reads
VisionCloses ==
  /\ pc = "visionRunning"
  /\ \E shots \in FoundFiles :
       VisionEnded(shots, NoFiles, {{}, 1..NumTimeframes}, {FALSE})

\* spawn throws inside executeCommand: the rejection reaches the catch block of
\* runAutoTrader
CycleThrows ==
  /\ pc \in {"captureRunning", "visionRunning"}
  /\ SetCtl(CycleThrew(Ctl))
  /\ UNCHANGED <<cfgVars, capVars, pipeVars, cropVars, settingsVars, argsVars, cycleNumber, cyclesStarted, lastCapture, lastVision, fsVars>>

\* waitMinutes is over in the try block: cycleNumber++, next iteration
WaitEnds ==
  /\ pc = "waiting"
  /\ cyclesStarted < horizon
  /\ cycleNumber' = cycleNumber + 1
  /\ BeginCycle
  /\ UNCHANGED <<cfgVars, capVars, pipeVars, cropVars, settingsVars, argsVars>>

\* waitMinutes(5) is over in the catch block: next iteration, same cycleNumber
WaitOnErrorEnds ==
  /\ pc = "waitingOnError"
  /\ cyclesStarted < horizon
  /\ BeginCycle
  /\ UNCHANGED <<cfgVars, capVars, pipeVars, cropVars, settingsVars, argsVars, cycleNumber>>

Next ==
  \/ Start
  \/ CaptureCloses
  \/ RetryDelayEnds
  \/ StepGapEnds
  \/ VisionCloses
  \/ CycleThrows
  \/ WaitEnds
  \/ WaitOnErrorEnds

Spec == Init /\ [][Next]_vars

-----------------------------------------------------------------------------
(* The scheduler with the screenshot directory followed file by file: the
   capture command writes and crops the screenshots, the vision command picks
   its images from what it finds. The configuration is the default one, with
   cropping on or off, and the run is followed for MaxFileCycles cycles. *)

InitFiles ==
  /\ argOnce = FALSE
  /\ argContinuous = FALSE
  /\ hasApiKey = TRUE
  /\ maxRetries \in 1..MaxRetriesBound
  /\ intervalMinutes = DefaultIntervalMinutes
  /\ cropEnabled \in BOOLEAN
  /\ horizon = MaxFileCycles
  /\ pc = "init"
  /\ cycleNumber = 1
  /\ consecutiveFailures = 0
  /\ attempt = 0
  /\ sleepMinutes = 0
  /\ exitCode = {}
  /\ cyclesStarted = 0
  /\ outcomes = <<>>
  /\ stepRuns = NoRuns
  /\ stepDelays = NoRuns
  /\ stepResult = NoResult
  /\ lastCapture = NoCapture
  /\ lastVision = NoVision
  /\ screenshots = NoFiles
  /\ cropped = NoFiles
  /\ analysisDirExists = FALSE
  /\ analysisDir = {}
  /\ now = 0
  /\ CaptureIdle
  /\ PipelineIdle
  /\ CropIdle
  /\ SettingsIdle
  /\ ArgsIdle

\* the capture command ends: the orchestrator has written the screenshot of
\* every timeframe it captured and, with cropping on and a screenshot taken,
\* cropTimeframeScreenshots has cropped the first nCrop existing screenshots
CaptureClosesFs ==
  /\ pc = "captureRunning"
  /\ \E spawnError \in BOOLEAN, captured \in SUBSET Range(DefaultTimeframes),
        nCrop \in 0..NumTimeframes :
       LET shots == AfterCapture(screenshots, captured)
           crops == cropEnabled /\ OrchestratorSuccess(captured)
           existing == {tf \in DOMAIN shots : shots[tf] # "absent"}
       IN /\ spawnError => captured = {}
          /\ nCrop <= (IF crops THEN Cardinality(existing) ELSE 0)
          /\ screenshots' = shots
          /\ cropped' = IF crops
                        THEN AfterCrop(DefaultTimeframes, shots, cropped, nCrop)
                        ELSE cropped
          /\ CaptureEnded(spawnError, captured)

\* the vision command ends: it has looked for its images in the directory
VisionClosesFs ==
  /\ pc = "visionRunning"
  /\ VisionEnded(screenshots, cropped, SUBSET (1..NumTimeframes), BOOLEAN)

NextFiles ==
  \/ Start
  \/ CaptureClosesFs
  \/ RetryDelayEnds
  \/ StepGapEnds
  \/ VisionClosesFs
  \/ CycleThrows
  \/ WaitEnds
  \/ WaitOnErrorEnds

SpecFiles == InitFiles /\ [][NextFiles]_vars

\* C4: in every cycle the vision pipeline analyses, and persists analyses of,
\* screenshots captured in that same cycle only: every analysed image was
\* written (or cropped from a screenshot written) by this cycle's capture.
C4_AnalysesThisCyclesScreenshots ==
  lastVision.success =>
    \A img \in lastVision.analyzed : img.content = "fresh"

\* C16: within one scheduler cycle at most one structured result record is
\* written, whatever number of attempts the vision step needs and whichever
\* attempt fails at whichever stage.
C16_OneRecordPerCycle == lastVision.saved <= 1

-----------------------------------------------------------------------------
(* One run of the capture orchestrator, executeMultiTimeframeAutomation, step
   by step, in its two variants: web-automation.ts works through the
   timeframes one after the other on the session it is handed, part_001 gives
   every timeframe a session of its own and joins them with Promise.all. *)

\* the labels a caller may request: "--timeframes 5m," is split into "5m", ""
CaptureLabels == {"5m", "15m", ""}
TimeframeLists == UNION {[1..n -> CaptureLabels] : n \in 0..MaxRequested}

BlankPage == [open |-> TRUE, url |-> "blank", interval |-> "none", lostBy |-> 0]
NoPage == [open |-> FALSE, url |-> "blank", interval |-> "none", lostBy |-> 0]
NoShot == [url |-> "none", interval |-> "none"]
PendingTask == [stage |-> "pending", failedAt |-> "none", dueTo |-> 0,
                success |-> FALSE, shot |-> NoShot]

\* the session a timeframe is captured in: the one session of the caller, or
\* the session createBrowserSession made for it
SessionOf(i) == IF variant = "sequential" THEN 0 ELSE i

\* page.goto(url) has succeeded
Navigated(page) == [page EXCEPT !.url = "site"]

\* page.reload() has succeeded: the site again, or, on a page whose navigation
\* had failed, what the browser makes of it (the site if `reached`)
Reloaded(page, reached) ==
  IF page.url = "site" \/ reached THEN [page EXCEPT !.url = "site"] ELSE page

\* applyChartSettingsForTimeframe's page.evaluate: the localStorage keys of the
\* site are written; on a page that is not the site localStorage throws, the
\* function's own catch swallows the error and nothing is written
SettingsApplied(page, tf) ==
  IF page.url = "site" THEN [page EXCEPT !.interval = tf] ELSE page

\* page.screenshot: what the image shows
ShotOf(page) == [url |-> page.url, interval |-> page.interval]

\* results.push({timeframe, success, ...})
Outcome(tf, success) == [timeframe |-> tf, success |-> success]

\* how a browser call may end: it succeeds, it throws, or it throws because
\* the page or the browser is gone for good ("Target closed"); once the
\* session is lost every call on it throws
StepOutcomes(i) ==
  IF pages[SessionOf(i)].lostBy # 0 THEN {"throws"} ELSE {"ok", "throws", "lost"}

\* the page after a call made for timeframe i
AfterStep(page, i, how, okPage) ==
  IF how = "ok" THEN okPage
  ELSE IF how = "lost" THEN [page EXCEPT !.lostBy = i]
  ELSE page

\* the timeframe during whose capture the reason of a failure of i arose
DueTo(i) ==
  IF pages[SessionOf(i)].lostBy # 0 THEN pages[SessionOf(i)].lostBy ELSE i

InitCapture ==
  /\ argOnce = FALSE
  /\ argContinuous = FALSE
  /\ hasApiKey = TRUE
  /\ maxRetries = 1
  /\ intervalMinutes = DefaultIntervalMinutes
  /\ cropEnabled \in BOOLEAN
  /\ horizon = 0
  /\ pc = "orchestrating"
  /\ cycleNumber = 1
  /\ consecutiveFailures = 0
  /\ attempt = 0
  /\ sleepMinutes = 0
  /\ exitCode = {}
  /\ cyclesStarted = 0
  /\ outcomes = <<>>
  /\ stepRuns = NoRuns
  /\ stepDelays = NoRuns
  /\ stepResult = NoResult
  /\ lastCapture = NoCapture
  /\ lastVision = NoVision
  /\ screenshots = [tf \in CaptureLabels |-> "absent"]
  /\ cropped = [tf \in CaptureLabels |-> "absent"]
  /\ analysisDirExists = FALSE
  /\ analysisDir = {}
  /\ now = 0
  /\ variant \in {"sequential", "parallel"}
  /\ requested \in TimeframeLists
  /\ capPc = "running"
  /\ loopIndex = IF variant = "sequential" THEN 1 ELSE 0
  /\ tasks = [i \in 1..Len(requested) |->
                [PendingTask EXCEPT !.stage = IF variant = "sequential"
                                              THEN "pending" ELSE "create"]]
  /\ pages = [k \in 0..Len(requested) |->
                IF k = 0 /\ variant = "sequential" THEN BlankPage ELSE NoPage]
  /\ results = <<>>
  /\ finished = <<>>
  /\ PipelineIdle
  /\ CropIdle
  /\ SettingsIdle
  /\ ArgsIdle

capRest == <<schedVars, analysisDirExists, analysisDir, now, variant, requested, capPc,
             pipeVars, cropVars, settingsVars, argsVars>>

\* the capture of timeframe i may take its next step, which is `stage`
AtStage(i, stage) ==
  /\ capPc = "running"
  /\ i \in 1..Len(requested)
  /\ IF variant = "sequential"
     THEN /\ i = loopIndex
          /\ requested[i] # ""
          /\ tasks[i].stage = (IF stage = "navigate" THEN "pending" ELSE stage)
     ELSE tasks[i].stage = stage

\* the capture of timeframe i ends with an outcome
Settle(i, success, failedAt, dueTo, shot) ==
  /\ tasks' = [tasks EXCEPT ![i] = [stage |-> "settled", failedAt |-> failedAt,
                                    dueTo |-> dueTo, success |-> success,
                                    shot |-> shot]]
  /\ finished' = Append(finished, i)
  /\ IF variant = "sequential"
     THEN /\ results' = Append(results, Outcome(requested[i], success))
          /\ loopIndex' = loopIndex + 1
     ELSE UNCHANGED <<results, loopIndex>>

\* a step of the capture of timeframe i has thrown: the sequential loop's
\* catch pushes the failure; captureTimeframeScreenshot first closes the
\* session in its finally block
Fail(i, stage) ==
  IF variant = "sequential"
  THEN Settle(i, FALSE, stage, DueTo(i), NoShot)
  ELSE /\ tasks' = [tasks EXCEPT ![i].stage = "close", ![i].failedAt = stage,
                                 ![i].dueTo = DueTo(i)]
       /\ UNCHANGED <<results, loopIndex, finished>>

\* the step has succeeded: on to the stage `next`
Advance(i, next) ==
  /\ tasks' = [tasks EXCEPT ![i].stage = next]
  /\ UNCHANGED <<results, loopIndex, finished>>

\* sequential loop: if (!timeframe) continue
SkipEmptyLabel ==
  /\ capPc = "running"
  /\ variant = "sequential"
  /\ loopIndex \in 1..Len(requested)
  /\ requested[loopIndex] = ""
  /\ tasks' = [tasks EXCEPT ![loopIndex].stage = "skipped"]
  /\ loopIndex' = loopIndex + 1
  /\ UNCHANGED <<capRest, screenshots, cropped, pages, results, finished>>

\* captureTimeframeScreenshot: createBrowserSession. It launches the browser,
\* then opens the context and the page; when it throws, the browser has
\* either not been launched or has been launched and is handed to nobody
CreateSession(i) ==
  /\ AtStage(i, "create")
  /\ variant = "parallel"
  /\ \E ok \in BOOLEAN, launched \in BOOLEAN :
       IF ok
       THEN /\ launched
            /\ pages' = [pages EXCEPT ![i] = BlankPage]
            /\ Advance(i, "navigate")
       ELSE /\ Settle(i, FALSE, "create", i, NoShot)
            /\ pages' = [pages EXCEPT ![i].open = launched]
  /\ UNCHANGED <<capRest, screenshots, cropped>>

\* navigateToUrl and the wait after it; the sequential loop navigates for its
\* first timeframe only and reloads the page for the others
Navigate(i) ==
  /\ AtStage(i, "navigate")
  /\ \E how \in StepOutcomes(i), reached \in BOOLEAN :
       LET page == pages[SessionOf(i)]
           reloads == variant = "sequential" /\ i # 1
       IN /\ (how # "ok" \/ ~reloads \/ page.url = "site") => reached
          /\ pages' = [pages EXCEPT ![SessionOf(i)] =
                         AfterStep(page, i, how,
                                   IF reloads THEN Reloaded(page, reached)
                                   ELSE Navigated(page))]
          /\ IF how = "ok" THEN Advance(i, "settings") ELSE Fail(i, "navigate")
  /\ UNCHANGED <<capRest, screenshots, cropped>>

\* applyChartSettingsForTimeframe: page.evaluate, then page.reload
ApplySettings(i) ==
  /\ AtStage(i, "settings")
  /\ \E how \in StepOutcomes(i), reached \in BOOLEAN :
       LET page == pages[SessionOf(i)] IN
          /\ (how # "ok" \/ page.url = "site") => reached
          /\ pages' = [pages EXCEPT ![SessionOf(i)] =
                         AfterStep(page, i, how,
                                   Reloaded(SettingsApplied(page, requested[i]),
                                            reached))]
          /\ IF how = "ok" THEN Advance(i, "wait") ELSE Fail(i, "settings")
  /\ UNCHANGED <<capRest, screenshots, cropped>>

\* page.waitForTimeout(waitTime)
WaitForChart(i) ==
  /\ AtStage(i, "wait")
  /\ \E how \in StepOutcomes(i) :
       LET page == pages[SessionOf(i)] IN
          /\ pages' = [pages EXCEPT ![SessionOf(i)] = AfterStep(page, i, how, page)]
          /\ IF how = "ok" THEN Advance(i, "screenshot") ELSE Fail(i, "wait")
  /\ UNCHANGED <<capRest, screenshots, cropped>>

\* takeScreenshot(page, `jupiter-${timeframe}.png`)
Screenshot(i) ==
  /\ AtStage(i, "screenshot")
  /\ \E how \in StepOutcomes(i) :
       LET page == pages[SessionOf(i)] IN
          /\ pages' = [pages EXCEPT ![SessionOf(i)] = AfterStep(page, i, how, page)]
          /\ IF how = "ok"
             THEN /\ screenshots' = AfterCapture(screenshots, {requested[i]})
                  /\ IF variant = "sequential"
                     THEN Settle(i, TRUE, "none", 0, ShotOf(page))
                     ELSE /\ tasks' = [tasks EXCEPT ![i].stage = "close",
                                                    ![i].shot = ShotOf(page)]
                          /\ UNCHANGED <<results, loopIndex, finished>>
             ELSE /\ Fail(i, "screenshot")
                  /\ UNCHANGED screenshots
  /\ UNCHANGED <<capRest, cropped>>

\* captureTimeframeScreenshot's finally: closeBrowserSession, which rethrows;
\* the outcome is a success when no step has thrown, the close included
CloseSession(i) ==
  /\ AtStage(i, "close")
  /\ variant = "parallel"
  /\ \E ok \in BOOLEAN :
       /\ pages' = [pages EXCEPT ![i].open = ~ok]
       /\ LET failedAt == IF tasks[i].failedAt # "none" THEN tasks[i].failedAt
                          ELSE IF ok THEN "none" ELSE "close"
          IN Settle(i, failedAt = "none", failedAt,
                    IF failedAt = "none" THEN 0 ELSE i, tasks[i].shot)
  /\ UNCHANGED <<capRest, screenshots, cropped>>

\* the loop is over, or Promise.all has resolved: the screenshots are cropped
\* and the result is returned
Return ==
  /\ capPc = "running"
  /\ IF variant = "sequential"
     THEN loopIndex = Len(requested) + 1
     ELSE \A i \in 1..Len(requested) : tasks[i].stage = "settled"
  /\ results' = IF variant = "sequential" THEN results
                ELSE [i \in 1..Len(requested) |->
                        Outcome(requested[i], tasks[i].success)]
  /\ \E nCrop \in 0..MaxRequested :
       LET crops == /\ cropEnabled
                    /\ \E i \in 1..Len(results') : results'[i].success
           existing == SelectSeq(requested, LAMBDA tf : screenshots[tf] # "absent")
       IN /\ nCrop <= (IF crops THEN Len(existing) ELSE 0)
          /\ cropped' = IF crops
                        THEN AfterCrop(requested, screenshots, cropped, nCrop)
                        ELSE cropped
  /\ capPc' = "returned"
  /\ UNCHANGED <<schedVars, analysisDirExists, analysisDir, now, variant,
                 requested, screenshots, loopIndex, tasks, pages, finished, pipeVars,
                 cropVars, settingsVars, argsVars>>

NextCapture ==
  \/ SkipEmptyLabel
  \/ \E i \in 1..MaxRequested : CreateSession(i)
  \/ \E i \in 1..MaxRequested : Navigate(i)
  \/ \E i \in 1..MaxRequested : ApplySettings(i)
  \/ \E i \in 1..MaxRequested : WaitForChart(i)
  \/ \E i \in 1..MaxRequested : Screenshot(i)
  \/ \E i \in 1..MaxRequested : CloseSession(i)
  \/ Return

SpecCapture == InitCapture /\ [][NextCapture]_vars

\* the browser sessions of the parallel orchestrator that are still open
OpenSessions == {i \in 1..Len(requested) : pages[i].open}

\* C37: when the parallel orchestrator has returned, every browser session
\* that was opened for one of its captures is closed, whether the capture
\* succeeded or failed, a failure of createBrowserSession and a failure of
\* closeBrowserSession included
C37_SessionsClosedOnReturn ==
  (capPc = "returned" /\ variant = "parallel") => OpenSessions = {}

\* C9: the orchestrator returns one outcome per requested timeframe, in the
\* order of the request: the result list has the length of the request and its
\* i-th entry is the outcome of the i-th requested timeframe, whichever capture
\* settled first and whichever failed.
C9_OneOutcomePerTimeframe ==
  capPc = "returned" =>
    /\ Len(results) = Len(requested)
    /\ \A i \in 1..Len(results) :
         /\ results[i].timeframe = requested[i]
         /\ results[i].success = tasks[i].success

\* C10: failure isolation. Whenever timeframes are requested by their labels:
\* every timeframe is captured in a session of its own; a timeframe one of
\* whose steps failed has the outcome success:false, and the reason of that
\* failure arose in its own capture, not in another timeframe's; a timeframe
\* none of whose steps failed has the outcome success:true on a screenshot of
\* the site set to its own interval.
C10_FailureIsolation ==
  (capPc = "returned" /\ \A k \in 1..Len(requested) : requested[k] # "") =>
    /\ \A i, j \in 1..Len(requested) : i # j => SessionOf(i) # SessionOf(j)
    /\ \A i \in 1..Len(requested) :
         IF tasks[i].failedAt # "none"
         THEN ~tasks[i].success /\ tasks[i].dueTo = i
         ELSE /\ tasks[i].success
              /\ tasks[i].shot = [url |-> "site", interval |-> requested[i]]

\* the capture of timeframe i has been started: its first call has been made
Started(i) == tasks[i].stage \notin {"pending", "skipped"}

\* C11: fan-out/fan-in. Whenever timeframes are requested by their labels, the
\* orchestrator starts the capture sessions of all of them concurrently: no
\* capture has finished while the capture of another requested timeframe has
\* not been started; and when the orchestrator returns, the capture of every
\* requested timeframe has finished with success or failure and the result
\* list is complete.
C11_FanOutFanIn ==
  (\A k \in 1..Len(requested) : requested[k] # "") =>
    /\ \A i, j \in 1..Len(requested) : tasks[i].stage = "settled" => Started(j)
    /\ capPc = "returned" =>
         /\ \A i \in 1..Len(requested) : tasks[i].stage = "settled"
         /\ Len(results) = Len(requested)

\* takeScreenshot(page, `jupiter-${timeframe}.png`): `${path}/${filename}` with
\* the default path "screenshots"
ScreenshotPath(tf) == <<"screenshots", "/", "jupiter-", tf, ".png">>

\* C12: no write contention. For every requested timeframe list, no two
\* captures of one orchestrator run are about to write their screenshot at the
\* same time to the same path, and the paths of the screenshots the run has
\* written are pairwise distinct.
C12_NoWriteContention ==
  \A i, j \in 1..Len(requested) :
    i # j =>
      /\ (tasks[i].stage = "screenshot" /\ tasks[j].stage = "screenshot") =>
           ScreenshotPath(requested[i]) # ScreenshotPath(requested[j])
      /\ (tasks[i].shot # NoShot /\ tasks[j].shot # NoShot) =>
           ScreenshotPath(requested[i]) # ScreenshotPath(requested[j])

-----------------------------------------------------------------------------
(* Runs of the vision pipeline, executeVisionAnalysis, step by step: the
   search for the images, the image analyses started together and joined by
   Promise.all, the 500 ms pause, then the decision, the synthesis and the
   verdict one after the other, the alert and the two saves. SpecPipeline
   follows one run, SpecRuns follows MaxRuns vision commands on one output
   directory; the clock starts anywhere within a second. *)

\* what the service may answer to an image analysis
Complete == <<"{", "key", "more", "}">>
AnalysisContents ==
  {<<>>, <<"txt">>, <<"{", "txt", "}">>, Complete, <<"{", "more", "}">>,
   <<"{", "key", "}">>}
\* what it may answer to the decision and to the synthesis request
StageContents == {<<>>, Complete, <<"{", "more", "}">>, <<"{", "key", "}">>}
\* what it may return as the function call of the verdict request
VerdictArguments ==
  {NoFunctionCall,
   Arguments(<<"{", "txt", "}">>, "HOLD", 50, 10),
   Arguments(Complete, "HOLD", 50, 10),
   Arguments(Complete, "BUY", 50, 10),
   Arguments(Complete, "LONG", 150, 10),
   Arguments(Complete, "SHORT", 50, 0),
   Arguments(<<"{", "key", "}">>, "HOLD", 50, 10),
   Arguments(<<"{", "more", "}">>, "HOLD", 50, 10)}

\* await new Promise((resolve) => setTimeout(resolve, 500)), in ticks
DelayTicks == (500 * TicksPerSecond) \div 1000

InitPipeline ==
  /\ argOnce = FALSE
  /\ argContinuous = FALSE
  /\ hasApiKey \in BOOLEAN
  /\ maxRetries = 1
  /\ intervalMinutes = DefaultIntervalMinutes
  /\ cropEnabled = TRUE
  /\ horizon = 0
  /\ pc = "pipeline"
  /\ cycleNumber = 1
  /\ consecutiveFailures = 0
  /\ attempt = 0
  /\ sleepMinutes = 0
  /\ exitCode = {}
  /\ cyclesStarted = 0
  /\ outcomes = <<>>
  /\ stepRuns = NoRuns
  /\ stepDelays = NoRuns
  /\ stepResult = NoResult
  /\ lastCapture = NoCapture
  /\ lastVision = NoVision
  /\ screenshots \in [Range(DefaultTimeframes) -> {"absent", "fresh"}]
  /\ cropped \in {NoFiles, screenshots}
  /\ analysisDirExists = FALSE
  /\ analysisDir = {}
  /\ now \in 0..(TicksPerSecond - 1)
  /\ CaptureIdle
  /\ PipelineIdle
  /\ CropIdle
  /\ SettingsIdle
  /\ ArgsIdle

pipeRest == <<schedVars, capVars, cropVars, settingsVars, argsVars, screenshots, cropped>>

\* the catch block: the run returns a failure
ReturnFailure(error) ==
  /\ result' = Failure(error)
  /\ pipePc' = "returned"

\* executeVisionAnalysis is called: the key check, the search for the images,
\* and imageFiles.map(...), which runs every analyzeChartImage up to its call
\* of the service; an image that cannot be read gives null at once
StartVision ==
  /\ pipePc = "idle"
  /\ runs < MaxRuns
  /\ runs' = runs + 1
  /\ LET imgs == ImageFiles(DefaultTimeframes, screenshots, cropped) IN
     IF ~hasApiKey \/ Len(imgs) = 0
     THEN /\ ReturnFailure(IF ~hasApiKey THEN "OPENAI_API_KEY"
                           ELSE "No chart images found")
          /\ UNCHANGED <<imageFiles, analysisResults, responses, calls, labels>>
     ELSE \E unreadable \in SUBSET (1..Len(imgs)) :
          /\ imageFiles' = imgs
          /\ labels' = [i \in 1..Len(imgs) |-> NoLabel]
          /\ analysisResults' =
               [i \in 1..Len(imgs) |->
                  IF i \in unreadable
                  THEN CaughtToNull(AnalyzeChartImage(FALSE, TRUE, <<>>))
                  ELSE Pending]
          /\ responses' = [i \in 1..Len(imgs) |-> <<>>]
          /\ calls' = [k \in 1..(Len(imgs) - Cardinality(unreadable)) |-> "analysis"]
          /\ pipePc' = "analysing"
          /\ UNCHANGED result
  /\ UNCHANGED <<pipeRest, completed, analysisDirExists, analysisDir, now,
                 individualAnalyses, tradingDecision, comprehensiveAnalysis,
                 finalVerdict, written>>

\* the service call of the analysis of image i ends; the object the service
\* wrote gives its timeframe member the label it was asked for, or another
AnalysisReturns(i) ==
  /\ pipePc = "analysing"
  /\ i \in 1..Len(imageFiles)
  /\ analysisResults[i] = Pending
  /\ \E serviceOk \in BOOLEAN, content \in AnalysisContents,
        label \in ServiceLabels(imageFiles[i].timeframe) :
       LET analysis == CaughtToNull(AnalyzeChartImage(TRUE, serviceOk, content)) IN
       /\ ~serviceOk => content = <<>>
       /\ ~analysis.ok => label = imageFiles[i].timeframe
       /\ responses' = [responses EXCEPT ![i] = content]
       /\ analysisResults' = [analysisResults EXCEPT ![i] = analysis]
       /\ labels' = [labels EXCEPT ![i] = TimeframeOf(analysis, label)]
  /\ completed' = Append(completed, i)
  /\ UNCHANGED <<pipeRest, analysisDirExists, analysisDir, now, pipePc, imageFiles,
                 individualAnalyses, tradingDecision, comprehensiveAnalysis,
                 finalVerdict, result, calls, written, runs>>

\* Promise.all resolves: the failed analyses are filtered out, the pause begins
Join ==
  /\ pipePc = "analysing"
  /\ \A i \in 1..Len(imageFiles) : analysisResults[i] # Pending
  /\ individualAnalyses' = FilterNotNull(analysisResults)
  /\ pipePc' = "delay"
  /\ UNCHANGED <<pipeRest, labels, completed, analysisDirExists, analysisDir, now, imageFiles,
                 analysisResults, tradingDecision, comprehensiveAnalysis,
                 finalVerdict, result, responses, calls, written, runs>>

\* the pause is over: the test for zero analyses, then
\* makeMultiTimeframeDecision up to its call of the service
DelayEnds ==
  /\ pipePc = "delay"
  /\ now' = now + DelayTicks
  /\ IF NoSuccessfulAnalyses(individualAnalyses)
     THEN ReturnFailure("No successful chart analyses") /\ UNCHANGED calls
     ELSE IF ~DecisionCallMade(individualAnalyses)
     THEN ReturnFailure("TypeError") /\ UNCHANGED calls
     ELSE /\ calls' = Append(calls, "decision")
          /\ pipePc' = "decision"
          /\ UNCHANGED result
  /\ UNCHANGED <<pipeRest, labels, completed, analysisDirExists, analysisDir, imageFiles, analysisResults,
                 individualAnalyses, tradingDecision, comprehensiveAnalysis,
                 finalVerdict, responses, written, runs>>

\* the decision call ends; generateComprehensiveAnalysis up to its call
DecisionReturns ==
  /\ pipePc = "decision"
  /\ \E serviceOk \in BOOLEAN, content \in StageContents, theirs \in ServiceTimeframes :
       LET decision == DecisionOf(serviceOk, content) IN
       /\ ~serviceOk => content = <<>>
       /\ IF Aborts(decision)
          THEN ReturnFailure(decision.error) /\ UNCHANGED <<tradingDecision, calls>>
          ELSE /\ tradingDecision' = FullDecision(decision, theirs, individualAnalyses)
               /\ calls' = Append(calls, "synthesis")
               /\ pipePc' = "synthesis"
               /\ UNCHANGED result
  /\ UNCHANGED <<pipeRest, labels, completed, analysisDirExists, analysisDir, now, imageFiles,
                 analysisResults, individualAnalyses, comprehensiveAnalysis,
                 finalVerdict, responses, written, runs>>

\* the synthesis call ends; generateFinalVerdict up to its call
SynthesisReturns ==
  /\ pipePc = "synthesis"
  /\ \E serviceOk \in BOOLEAN, content \in StageContents :
       LET synthesis == ParseResponse(serviceOk, content) IN
       /\ ~serviceOk => content = <<>>
       /\ IF Aborts(synthesis)
          THEN ReturnFailure(synthesis.error)
               /\ UNCHANGED <<comprehensiveAnalysis, calls>>
          ELSE /\ comprehensiveAnalysis' = synthesis
               /\ IF VerdictCallMade(synthesis)
                  THEN /\ calls' = Append(calls, "verdict")
                       /\ pipePc' = "verdict"
                       /\ UNCHANGED result
                  ELSE ReturnFailure("TypeError") /\ UNCHANGED calls
  /\ UNCHANGED <<pipeRest, labels, completed, analysisDirExists, analysisDir, now, imageFiles,
                 analysisResults, individualAnalyses, tradingDecision,
                 finalVerdict, responses, written, runs>>

\* the verdict call ends; playTradingAlert begins
VerdictReturns ==
  /\ pipePc = "verdict"
  /\ \E serviceOk \in BOOLEAN, args \in VerdictArguments :
       LET verdict == VerdictOf(serviceOk, args) IN
       /\ ~serviceOk => args = NoFunctionCall
       /\ IF Aborts(verdict)
          THEN ReturnFailure(verdict.error) /\ UNCHANGED finalVerdict
          ELSE /\ finalVerdict' = verdict
               /\ pipePc' = "alert"
               /\ UNCHANGED result
  /\ UNCHANGED <<pipeRest, labels, completed, analysisDirExists, analysisDir, now, imageFiles,
                 analysisResults, individualAnalyses, tradingDecision,
                 comprehensiveAnalysis, responses, calls, written, runs>>

\* a member that saveAnalysisToText dereferences may be missing from an
\* analysis, the decision, the synthesis or the verdict
Incomplete(res) ==
  \/ \E i \in 1..Len(res.individualAnalyses) :
       ~(RequiredFields \subseteq res.individualAnalyses[i].fields)
  \/ ~(RequiredFields \subseteq res.tradingDecision.fields)
  \/ ~(RequiredFields \subseteq comprehensiveAnalysis.fields)
  \/ ~(RequiredFields \subseteq res.finalVerdict.fields)

FileName(f) == [ts |-> f.ts, ext |-> f.ext]

\* executeVisionAnalysis after playTradingAlert has returned: the result is
\* built, saveAnalysisToJson writes the record, saveAnalysisToText writes the
\* report or throws on a missing member
AlertReturned ==
  /\ \E textThrows \in BOOLEAN :
       LET success == [success |-> TRUE, individualAnalyses |-> individualAnalyses,
                       tradingDecision |-> tradingDecision,
                       finalVerdict |-> finalVerdict, error |-> "none"]
           json == JsonFile(now, Undefined)
           text == TextFile(now)
       IN /\ textThrows => Incomplete(success)
          /\ analysisDir' = IF textThrows THEN WriteFile(analysisDir, json)
                            ELSE WriteFile(WriteFile(analysisDir, json), text)
          /\ written' = written \o
               (IF textThrows THEN <<[run |-> runs, name |-> FileName(json)]>>
                ELSE <<[run |-> runs, name |-> FileName(json)],
                       [run |-> runs, name |-> FileName(text)]>>)
          /\ result' = IF textThrows THEN Failure("TypeError") ELSE success
  /\ analysisDirExists' = TRUE
  /\ pipePc' = "returned"

\* playTradingAlert is over: it has returned, or the process has ended in it
AlertEnds ==
  /\ pipePc = "alert"
  /\ \E ended \in {PlayTradingAlert(finalVerdict.action, finalVerdict.confidence,
                                      customSuccess, systemSuccess, beepSpawns)
                       = "crashed" :
                       customSuccess \in BOOLEAN, systemSuccess \in BOOLEAN,
                       beepSpawns \in BOOLEAN} :
       IF ended
       THEN /\ pipePc' = "crashed"
            /\ UNCHANGED <<analysisDirExists, analysisDir, written, result>>
       ELSE AlertReturned
  /\ UNCHANGED <<pipeRest, labels, completed, now, imageFiles, analysisResults, individualAnalyses,
                 tradingDecision, comprehensiveAnalysis, finalVerdict, responses,
                 calls, runs>>

\* the vision command has ended and the next one is started on the same
\* directories
Restart ==
  /\ pipePc \in {"returned", "crashed"}
  /\ runs < MaxRuns
  /\ now' = now
  /\ pipePc' = "idle"
  /\ imageFiles' = <<>>
  /\ analysisResults' = <<>>
  /\ individualAnalyses' = <<>>
  /\ tradingDecision' = None
  /\ comprehensiveAnalysis' = None
  /\ finalVerdict' = NoVerdict
  /\ result' = NotReturned
  /\ responses' = <<>>
  /\ calls' = <<>>
  /\ labels' = <<>>
  /\ completed' = <<>>
  /\ UNCHANGED <<pipeRest, analysisDirExists, analysisDir, written, runs>>

NextPipeline ==
  \/ StartVision
  \/ \E i \in 1..NumTimeframes : AnalysisReturns(i)
  \/ Join
  \/ DelayEnds
  \/ DecisionReturns
  \/ SynthesisReturns
  \/ VerdictReturns
  \/ AlertEnds

\* one run, started on the tick of a second
InitOneRun == InitPipeline /\ now = 0

SpecPipeline == InitOneRun /\ [][NextPipeline]_vars

\* MaxRuns vision commands one after the other on the same directories
NextRuns ==
  \/ NextPipeline
  \/ Restart

SpecRuns == InitPipeline /\ [][NextRuns]_vars

\* the calls made to the service for the stages after the image analyses
StageCalls == SelectSeq(calls, LAMBDA c : c # "analysis")
Called(stage) == \E k \in 1..Len(calls) : calls[k] = stage
IsPrefix(s, t) == Len(s) <= Len(t) /\ s = SubSeq(t, 1, Len(s))

\* C14: pipeline stage ordering. The decision call is made only after every
\* image analysis has finished and at least one has succeeded, the synthesis
\* call only after the decision has returned, the verdict call only after the
\* synthesis has returned, in this order and each at most once; when the
\* decision, the synthesis or the verdict stage fails, no later stage is
\* called and the result is a failure that carries no decision and no verdict.
C14_StageOrdering ==
  /\ IsPrefix(StageCalls, <<"decision", "synthesis", "verdict">>)
  /\ Called("decision") =>
       /\ \A i \in 1..Len(analysisResults) : analysisResults[i] # Pending
       /\ \E i \in 1..Len(analysisResults) : analysisResults[i].ok
       /\ calls = SubSeq(calls, 1, Len(calls) - Len(StageCalls)) \o StageCalls
  /\ Called("synthesis") => tradingDecision.ok
  /\ Called("verdict") => comprehensiveAnalysis.ok
  /\ pipePc = "returned" =>
       /\ result.success =>
            (tradingDecision.ok /\ comprehensiveAnalysis.ok /\ finalVerdict.ok)
       /\ (Called("decision") /\ ~tradingDecision.ok) =>
            (~Called("synthesis") /\ ~Called("verdict") /\ ~result.success)
       /\ (Called("synthesis") /\ ~comprehensiveAnalysis.ok) =>
            (~Called("verdict") /\ ~result.success)
       /\ (Called("verdict") /\ ~finalVerdict.ok) => ~result.success
       /\ ~result.success =>
            (result.tradingDecision = None /\ result.finalVerdict = NoVerdict)

\* a run of two images, one of them analysed, whose synthesis stage failed
\* after the decision had returned: no verdict call, a failure without
\* decision and verdict
C14_Witness ==
  /\ pipePc = "returned"
  /\ calls = <<"analysis", "analysis", "decision", "synthesis">>
  /\ Len(individualAnalyses) = 1
  /\ tradingDecision.ok
  /\ ~comprehensiveAnalysis.ok
  /\ result = Failure("No response content from OpenAI")

\* the analysis of image i has failed: the image could not be read, or the
\* service gave no response, a response without JSON, or JSON that does not
\* parse
AnalysisFailed(i) ==
  /\ analysisResults[i] # Pending
  /\ ~IsJsonObject(JsonMatch(responses[i]))

\* the run has gone on to the decision stage: makeMultiTimeframeDecision was
\* invoked (it called the service, or threw while it built its prompt)
DecisionStageEntered ==
  \/ Called("decision")
  \/ pipePc = "returned" /\ result.error = "TypeError"

\* C15: per-timeframe analysis failure is isolated. When the analysis of an
\* image fails (no response, no JSON found, unparsable JSON, missing image),
\* exactly that timeframe's analysis is dropped: after the join the list of
\* analyses holds, in the order of the images, the analysis of every image
\* whose analysis did not fail; and the run goes on to the decision stage if
\* and only if at least one analysis succeeded, returning the failure
\* "No successful chart analyses" otherwise.
C15_AnalysisFailureIsolated ==
  (pipePc \notin {"idle", "analysing"} /\ Len(imageFiles) > 0) =>
    /\ \A i \in 1..Len(imageFiles) :
         IF AnalysisFailed(i) THEN analysisResults[i] = Null
         ELSE analysisResults[i] = Returned(ParsedFields(JsonMatch(responses[i])))
    /\ individualAnalyses = SelectSeq(analysisResults, LAMBDA a : a.ok)
    /\ Len(individualAnalyses) =
         Cardinality({i \in 1..Len(imageFiles) : ~AnalysisFailed(i)})
    /\ pipePc # "delay" =>
         /\ DecisionStageEntered <=> (\E i \in 1..Len(imageFiles) : ~AnalysisFailed(i))
         /\ ~DecisionStageEntered =>
              (pipePc = "returned" /\ result = Failure("No successful chart analyses"))

\* of two images the first got JSON that does not parse, the second a complete
\* analysis: the second alone went on to the decision stage
C15_Witness ==
  /\ Len(imageFiles) = 2
  /\ responses = <<(<<"{", "txt", "}">>), Complete>>
  /\ analysisResults = <<Null, Returned(RequiredFields)>>
  /\ individualAnalyses = <<Returned(RequiredFields)>>
  /\ Called("decision")

\* C17: persisted result files are never overwritten. Any two writes of a
\* result file, by the same run or by two runs, go to different file names, so
\* that every record and every report ever written is still in the directory
\* as it was written.
C17_NeverOverwritten ==
  \A i, j \in 1..Len(written) : i # j => written[i].name # written[j].name

\* the parameters schema of make_trading_verdict: the enum of action, the
\* ranges of confidence and positionSize, the required members
InSchema(verdict) ==
  /\ verdict.action \in {"HOLD", "LONG", "SHORT"}
  /\ verdict.confidence \in 1..100
  /\ verdict.positionSize \in 1..100
  /\ RequiredFields \subseteq verdict.fields

\* C18: the verdict stage never yields a defaulted or out-of-schema verdict.
\* Every verdict in a successful result satisfies the declared schema (action
\* in {HOLD, LONG, SHORT}, confidence and positionSize in 1..100, every
\* required member present); a missing or malformed structured response makes
\* the result a failure.
C18_VerdictInSchema ==
  (pipePc = "returned" /\ result.success) =>
    (result.finalVerdict.ok /\ InSchema(result.finalVerdict))

\* C20: the Single-Image Analyzer fails with a parse error whenever the
\* response holds no JSON block or the parsed object lacks a required
\* ChartAnalysis member, so that no ChartAnalysis with a required member
\* absent reaches the decision stage: once a run is past the test for zero
\* analyses, every analysis that was not dropped has every required member.
C20_IncompleteAnalysisRejected ==
  pipePc \notin {"idle", "analysing", "delay"} =>
    /\ \A i \in 1..Len(analysisResults) :
         analysisResults[i].ok =>
           (/\ JsonMatch(responses[i]) # NoMatch
            /\ RequiredFields \subseteq analysisResults[i].fields)
    /\ \A k \in 1..Len(individualAnalyses) :
         RequiredFields \subseteq individualAnalyses[k].fields

\* C23: every ChartAnalysis in a pipeline result has a timeframe label that
\* belongs to the requested timeframe set, namely the label of the image it
\* was produced from.
C23_TimeframeLabelRequested ==
  (pipePc = "returned" /\ result.success) =>
    \A i \in 1..Len(imageFiles) :
      analysisResults[i].ok =>
        /\ labels[i] \in Range(DefaultTimeframes)
        /\ labels[i] = imageFiles[i].timeframe

\* C24: TradingDecision.timeframes is exactly the list of successful
\* ChartAnalysis records the decision was derived from (whatever the reasoning
\* service returned in that field), and its length never exceeds the number
\* of requested timeframes.
C24_DecisionTimeframes ==
  /\ tradingDecision.ok =>
       /\ tradingDecision.timeframes = SelectSeq(analysisResults, LAMBDA a : a.ok)
       /\ tradingDecision.timeframes = individualAnalyses
       /\ Len(tradingDecision.timeframes) <= Len(DefaultTimeframes)
  /\ (pipePc = "returned" /\ result.success) =>
       /\ result.tradingDecision.timeframes = result.individualAnalyses
       /\ result.individualAnalyses = SelectSeq(analysisResults, LAMBDA a : a.ok)

\* of two images one was analysed: the decision of the successful run holds
\* that one analysis
C24_Witness ==
  /\ pipePc = "returned"
  /\ result.success
  /\ Len(imageFiles) = 2
  /\ analysisResults[1] = Null
  /\ analysisResults[2].ok
  /\ result.tradingDecision.timeframes = <<analysisResults[2]>>

\* the position of a label in the timeframe list of the configuration
TimeframeIndex(tf) == CHOOSE k \in 1..Len(DefaultTimeframes) : DefaultTimeframes[k] = tf

\* C25: the list of ChartAnalysis records of a pipeline run follows the
\* caller-supplied timeframe order (it is the requested order with the failed
\* timeframes removed), independent of the order in which the concurrent
\* image analyses complete: the images are in the order of the timeframe
\* list, and the list of analyses holds the analysis of every image whose
\* analysis succeeded, in the order of the images.
C25_AnalysisOrder ==
  (pipePc \notin {"idle", "analysing"} /\ Len(imageFiles) > 0) =>
    /\ \A i, j \in 1..Len(imageFiles) :
         i < j => TimeframeIndex(imageFiles[i].timeframe)
                    < TimeframeIndex(imageFiles[j].timeframe)
    /\ \E f \in [1..Len(individualAnalyses) -> 1..Len(imageFiles)] :
         /\ \A k, l \in DOMAIN f : k < l => f[k] < f[l]
         /\ \A k \in DOMAIN f : individualAnalyses[k] = analysisResults[f[k]]
         /\ {f[k] : k \in DOMAIN f} = {i \in 1..Len(imageFiles) : analysisResults[i].ok}
    /\ (pipePc = "returned" /\ result.success) =>
         result.individualAnalyses = individualAnalyses

\* the analysis of the second image ended before that of the first, the two
\* analyses differ, and the result lists the first image's analysis first
C25_Witness ==
  /\ pipePc = "returned"
  /\ result.success
  /\ completed = <<2, 1>>
  /\ analysisResults[1].ok /\ analysisResults[2].ok
  /\ analysisResults[1] # analysisResults[2]
  /\ result.individualAnalyses = <<analysisResults[1], analysisResults[2]>>

\* the result file of the current run with the extension ext was written
Saved(ext) ==
  \E k \in 1..Len(written) : written[k].run = runs /\ written[k].name.ext = ext

\* C21: a failure of the notification side effect (custom sound, system sound
\* and fallback beep failing in any combination) never fails the pipeline: a
\* run whose verdict stage has returned a verdict goes on to its return
\* whatever the alert did, with the record written and, for a result that is
\* a success, the report written, as when the notification succeeds.
C21_NotificationNeverFails ==
  (finalVerdict.ok /\ pipePc # "alert") =>
    /\ pipePc = "returned"
    /\ Saved("json")
    /\ result.success \/ result = Failure("TypeError")
    /\ result.success => (Saved("txt") /\ result.finalVerdict = finalVerdict)

-----------------------------------------------------------------------------
(* One batch of crops, image-cropping.ts: cropTimeframeScreenshots (and
   cropImages) hand the same CropConfig object to cropImage for one image
   after the other. The rectangle requested has a non-negative origin and a
   positive size of at most MaxPixels, the batch has at most MaxBatch images
   of at most MaxPixels by MaxPixels. *)

Origins == 0..MaxPixels
Sizes == 1..MaxPixels
Rects == {Rect(x, y, w, h) : x \in Origins, y \in Origins, w \in Sizes, h \in Sizes}
ImageSizes == [width : Sizes, height : Sizes]

InitCrop ==
  /\ SchedulerIdle
  /\ CaptureIdle
  /\ PipelineIdle
  /\ SettingsIdle
  /\ ArgsIdle
  /\ cropPc = "cropping"
  /\ cropRequest \in Rects
  /\ cropConfig = cropRequest
  /\ images \in UNION {[1..n -> ImageSizes] : n \in 1..MaxBatch}
  /\ extracts = <<>>

\* cropImage, "validate crop parameters": a rectangle that extends beyond the
\* right or the lower edge has its width or height replaced by what is left
\* of the image from the origin on; the assignment is to the config object
Clamped(config, image) ==
  [config EXCEPT
     !.width = IF config.x + config.width > image.width
               THEN image.width - config.x ELSE @,
     !.height = IF config.y + config.height > image.height
                THEN image.height - config.y ELSE @]

Extracted(region) == [ok |-> TRUE, region |-> region]
ExtractThrew == [ok |-> FALSE, region |-> NoRect]

\* sharp(...).extract({left, top, width, height}).toFile(...): the region, or
\* an error for a width or height that is not positive and for a region that
\* is not inside the image
Extract(image, rect) ==
  IF /\ rect.x >= 0 /\ rect.y >= 0
     /\ rect.width > 0 /\ rect.height > 0
     /\ rect.x + rect.width <= image.width
     /\ rect.y + rect.height <= image.height
  THEN Extracted(rect)
  ELSE ExtractThrew

\* cropImage on the next image of the batch; when it throws the loop of
\* cropTimeframeScreenshots ends with the error
CropImage ==
  /\ cropPc = "cropping"
  /\ LET i == Len(extracts) + 1
         config == Clamped(cropConfig, images[i])
         extract == Extract(images[i], config)
     IN /\ cropConfig' = config
        /\ extracts' = Append(extracts, extract)
        /\ cropPc' = IF ~extract.ok THEN "threw"
                     ELSE IF i = Len(images) THEN "returned"
                     ELSE "cropping"
  /\ UNCHANGED <<schedVars, fsVars, capVars, pipeVars, settingsVars, argsVars, cropRequest, images>>

NextCrop == CropImage

SpecCrop == InitCrop /\ [][NextCrop]_vars

\* the rectangle extends beyond the right or the lower edge of the image
ExceedsBounds(rect, image) ==
  rect.x + rect.width > image.width \/ rect.y + rect.height > image.height

\* the region has a positive size and lies inside the image
InsideImage(region, image) ==
  /\ region.width > 0 /\ region.height > 0
  /\ region.x >= 0 /\ region.y >= 0
  /\ region.x + region.width <= image.width
  /\ region.y + region.height <= image.height

\* C22: crop clamping. For every crop rectangle and every image size, when
\* x+width or y+height exceeds the image bounds the crop is clamped to the
\* bounds and succeeds: cropImage, called with the rectangle as requested,
\* does not raise and extracts a region of positive width and height inside
\* the image.
C22_CropClamped ==
  (Len(extracts) >= 1 /\ ExceedsBounds(cropRequest, images[1])) =>
    (extracts[1].ok /\ InsideImage(extracts[1].region, images[1]))

\* C38: cropImage leaves the configuration it is given unchanged: after any
\* number of images of a batch the configuration object still holds the
\* rectangle requested, and every image has been cropped with the requested
\* rectangle clamped against its own bounds only.
C38_ConfigUnchanged ==
  /\ cropConfig = cropRequest
  /\ \A i \in 1..Len(extracts) :
       extracts[i] = Extract(images[i], Clamped(cropRequest, images[i]))

-----------------------------------------------------------------------------
(* makeMultiTimeframeDecision on its own: the list of analyses is drawn from
   the lists of at most NumTimeframes analyses, the empty one included, the
   function is applied to it and the service answers with a text of at most
   MaxContent tokens *)

AnalysisLists ==
  UNION {[1..n -> {Returned(F) : F \in SUBSET Members}] : n \in 0..NumTimeframes}

InitDecision ==
  /\ argOnce = FALSE
  /\ argContinuous = FALSE
  /\ hasApiKey = TRUE
  /\ maxRetries = 1
  /\ intervalMinutes = DefaultIntervalMinutes
  /\ cropEnabled = TRUE
  /\ horizon = 0
  /\ pc = "pipeline"
  /\ cycleNumber = 1
  /\ consecutiveFailures = 0
  /\ attempt = 0
  /\ sleepMinutes = 0
  /\ exitCode = {}
  /\ cyclesStarted = 0
  /\ outcomes = <<>>
  /\ stepRuns = NoRuns
  /\ stepDelays = NoRuns
  /\ stepResult = NoResult
  /\ lastCapture = NoCapture
  /\ lastVision = NoVision
  /\ screenshots = NoFiles
  /\ cropped = NoFiles
  /\ analysisDirExists = FALSE
  /\ analysisDir = {}
  /\ now = 0
  /\ CaptureIdle
  /\ pipePc = "decide"
  /\ imageFiles = <<>>
  /\ analysisResults = <<>>
  /\ individualAnalyses \in AnalysisLists
  /\ tradingDecision = None
  /\ comprehensiveAnalysis = None
  /\ finalVerdict = NoVerdict
  /\ result = NotReturned
  /\ responses = <<>>
  /\ calls = <<>>
  /\ written = <<>>
  /\ runs = 0
  /\ labels = <<>>
  /\ completed = <<>>
  /\ CropIdle
  /\ SettingsIdle
  /\ ArgsIdle

\* makeMultiTimeframeDecision(openai, individualAnalyses, config) up to its
\* await
InvokeDecision ==
  /\ pipePc = "decide"
  /\ IF DecisionCallMade(individualAnalyses)
     THEN /\ calls' = Append(calls, "decision")
          /\ pipePc' = "decision"
          /\ UNCHANGED tradingDecision
     ELSE /\ tradingDecision' = Threw("TypeError")
          /\ pipePc' = "decided"
          /\ UNCHANGED calls
  /\ UNCHANGED <<pipeRest, labels, completed, analysisDirExists, analysisDir, now, imageFiles,
                 analysisResults, individualAnalyses, comprehensiveAnalysis,
                 finalVerdict, result, responses, written, runs>>

\* the service call ends: the function returns the decision or throws
DecisionEnds ==
  /\ pipePc = "decision"
  /\ \E serviceOk \in BOOLEAN, content \in Contents(MaxContent) :
       /\ ~serviceOk => content = <<>>
       /\ responses' = <<content>>
       /\ tradingDecision' =
            LET decision == DecisionOf(serviceOk, content) IN
            IF Aborts(decision) THEN decision
            ELSE FullDecision(decision, <<>>, individualAnalyses)
  /\ pipePc' = "decided"
  /\ UNCHANGED <<pipeRest, labels, completed, analysisDirExists, analysisDir, now, imageFiles,
                 analysisResults, individualAnalyses, comprehensiveAnalysis,
                 finalVerdict, result, calls, written, runs>>

NextDecision ==
  \/ InvokeDecision
  \/ DecisionEnds

SpecDecision == InitDecision /\ [][NextDecision]_vars

-----------------------------------------------------------------------------
(* analyzeChartImage on its own: the response of the service is drawn from
   the texts of at most MaxContent tokens and the function is applied to it *)

InitExtract ==
  /\ argOnce = FALSE
  /\ argContinuous = FALSE
  /\ hasApiKey = TRUE
  /\ maxRetries = 1
  /\ intervalMinutes = DefaultIntervalMinutes
  /\ cropEnabled = TRUE
  /\ horizon = 0
  /\ pc = "pipeline"
  /\ cycleNumber = 1
  /\ consecutiveFailures = 0
  /\ attempt = 0
  /\ sleepMinutes = 0
  /\ exitCode = {}
  /\ cyclesStarted = 0
  /\ outcomes = <<>>
  /\ stepRuns = NoRuns
  /\ stepDelays = NoRuns
  /\ stepResult = NoResult
  /\ lastCapture = NoCapture
  /\ lastVision = NoVision
  /\ screenshots = AllFiles
  /\ cropped = NoFiles
  /\ analysisDirExists = FALSE
  /\ analysisDir = {}
  /\ now = 0
  /\ CaptureIdle
  /\ pipePc = "analyze"
  /\ imageFiles = SubSeq(ImageFiles(DefaultTimeframes, screenshots, cropped), 1, 1)
  /\ analysisResults = <<Pending>>
  /\ individualAnalyses = <<>>
  /\ tradingDecision = None
  /\ comprehensiveAnalysis = None
  /\ finalVerdict = NoVerdict
  /\ result = NotReturned
  /\ responses \in {<<content>> : content \in Contents(MaxContent)}
  /\ calls = <<"analysis">>
  /\ written = <<>>
  /\ runs = 0
  /\ labels = <<>>
  /\ completed = <<>>
  /\ CropIdle
  /\ SettingsIdle
  /\ ArgsIdle

\* analyzeChartImage after its await: the service has answered with
\* responses[1]; the function returns the analysis or throws
AnalyzeResponse ==
  /\ pipePc = "analyze"
  /\ analysisResults' = <<AnalyzeChartImage(TRUE, TRUE, responses[1])>>
  /\ pipePc' = "analyzed"
  /\ UNCHANGED <<pipeRest, labels, completed, analysisDirExists, analysisDir, now, imageFiles,
                 individualAnalyses, tradingDecision, comprehensiveAnalysis,
                 finalVerdict, result, responses, calls, written, runs>>

NextExtract == AnalyzeResponse

SpecExtract == InitExtract /\ [][NextExtract]_vars

\* the block from position i to position j of s is balanced: it opens at i,
\* closes at j, and its first brace is closed by its last and not before
Balanced(s, i, j) ==
  /\ i < j
  /\ s[i] = "{"
  /\ s[j] = "}"
  /\ \A k \in i..(j - 1) : Depth(s, k) - Depth(s, i - 1) >= 1
  /\ Depth(s, j) = Depth(s, i - 1)

\* the first balanced {...} block of a text, NoMatch if it has none
FirstBalancedBlock(s) ==
  LET starts == {i \in 1..Len(s) : \E j \in 1..Len(s) : Balanced(s, i, j)} IN
  IF starts = {} THEN NoMatch
  ELSE LET i == CHOOSE a \in starts : \A b \in starts : a <= b
           j == CHOOSE e \in 1..Len(s) : Balanced(s, i, e)
       IN SubSeq(s, i, j)

\* C19: JSON extraction. For every free-text response that holds a balanced
\* {...} block, the analyzer parses exactly the first such block, ignoring the
\* prose before and after it, braces in that prose included: it returns the
\* object of that block, or fails if that block is not JSON.
C19_ExtractsFirstBalancedBlock ==
  (pipePc = "analyzed" /\ FirstBalancedBlock(responses[1]) # NoMatch) =>
    analysisResults[1] =
      (IF IsJsonObject(FirstBalancedBlock(responses[1]))
       THEN Returned(ParsedFields(FirstBalancedBlock(responses[1])))
       ELSE Threw("SyntaxError"))

-----------------------------------------------------------------------------
(* extractNextCheckInterval on its own: the directory analysis-results is
   drawn from the directories of at most MaxStoredFiles timestamps, and
   the function is applied to it *)

\* values the latest verdict may hold in nextCheckMinutes
StoredValues ==
  {Undefined, Str(13)} \cup {Num(n) : n \in {-5, 0, 1, 2, 13, 59, 60, 61, 120}}

\* what analysis-<ts>.json may be: a verdict file, or a file JSON.parse rejects
StoredJson(ts) ==
  {[ts |-> ts, ext |-> "json", parsable |-> TRUE, ncm |-> v] : v \in StoredValues}
    \cup {[ts |-> ts, ext |-> "json", parsable |-> FALSE, ncm |-> Undefined]}

\* the directories: at most one .json file per timestamp, and possibly the
\* text report of the first timestamp
Directories ==
  LET perTs == [1..MaxStoredFiles ->
                  {{}} \cup UNION {{{f} : f \in StoredJson(ts)} : ts \in 1..MaxStoredFiles}]
      wellNamed == {d \in perTs : \A ts \in 1..MaxStoredFiles : \A f \in d[ts] : f.ts = ts}
  IN {UNION {d[ts] : ts \in 1..MaxStoredFiles} \cup txt :
        d \in wellNamed, txt \in {{}, {[ts |-> 1, ext |-> "txt", parsable |-> FALSE,
                                       ncm |-> Undefined]}}}

InitInterval ==
  /\ argOnce = FALSE
  /\ argContinuous = TRUE
  /\ hasApiKey = TRUE
  /\ maxRetries = 1
  /\ intervalMinutes \in Intervals \cup IntervalsOutOfBounds
  /\ cropEnabled = TRUE
  /\ horizon = 0
  /\ pc = "extract"
  /\ cycleNumber = 1
  /\ consecutiveFailures = 0
  /\ attempt = 0
  /\ sleepMinutes = 0
  /\ exitCode = {}
  /\ cyclesStarted = 0
  /\ outcomes = <<>>
  /\ stepRuns = NoRuns
  /\ stepDelays = NoRuns
  /\ stepResult = NoResult
  /\ lastCapture = NoCapture
  /\ lastVision = NoVision
  /\ screenshots = [tf \in Range(DefaultTimeframes) |-> "absent"]
  /\ cropped = [tf \in Range(DefaultTimeframes) |-> "absent"]
  /\ analysisDirExists \in BOOLEAN
  /\ analysisDir \in (IF analysisDirExists THEN Directories ELSE {{}})
  /\ now = 0
  /\ CaptureIdle
  /\ PipelineIdle
  /\ CropIdle
  /\ SettingsIdle
  /\ ArgsIdle

\* const nextInterval = extractNextCheckInterval(config.intervalMinutes)
ExtractInterval ==
  /\ pc = "extract"
  /\ sleepMinutes' = ExtractNextCheckInterval(analysisDirExists, analysisDir,
                                              intervalMinutes)
  /\ pc' = "extracted"
  /\ UNCHANGED <<cfgVars, capVars, pipeVars, cropVars, settingsVars, argsVars, cycleNumber, consecutiveFailures, attempt, exitCode,
                 cyclesStarted, outcomes, stepRuns, stepDelays, stepResult,
                 lastCapture, lastVision, fsVars>>

NextInterval == ExtractInterval

SpecInterval == InitInterval /\ [][NextInterval]_vars

\* the verdict files of the directory with the greatest timestamp
LatestVerdicts ==
  {f \in analysisDir :
     /\ f.ext = "json"
     /\ \A g \in analysisDir : g.ext = "json" => g.ts <= f.ts}

\* C6: interval clamping. For every integer n stored as nextCheckMinutes in the
\* latest persisted verdict, extractNextCheckInterval returns max(2, min(60, n)):
\* 60 for n above 60, 2 for n below 2, and n itself for n in 2..60.
C6_IntervalClamping ==
  pc = "extracted" =>
    \A f \in LatestVerdicts :
      (f.parsable /\ f.ncm.type = "number") =>
        sleepMinutes = (IF f.ncm.val > 60 THEN 60
                        ELSE IF f.ncm.val < 2 THEN 2
                        ELSE f.ncm.val)

\* 120 in the latest verdict, 13 in an older one, and a default of 3: the
\* function has returned 60
C6_Witness ==
  /\ pc = "extracted"
  /\ intervalMinutes = 3
  /\ \E f \in LatestVerdicts : f.ncm = Num(120)
  /\ \E g \in analysisDir \ LatestVerdicts : g.ext = "json" /\ g.ncm = Num(13)
  /\ sleepMinutes = 60

-----------------------------------------------------------------------------
(* Properties of the scheduler, checked under Spec *)

Steps == {"capture", "vision"}
Failed(o) == o \in {"fail", "error"}
LastOutcome == IF outcomes = <<>> THEN "none" ELSE outcomes[Len(outcomes)]

\* C1: circuit breaker. Whenever three consecutive cycles have failed (through
\* a failed step or through an unexpected error), these are the last three
\* cycles ever started and the scheduler loop has terminated: no further cycle
\* is started after them.
C1_CircuitBreaker ==
  \A i \in 3..Len(outcomes) :
    (Failed(outcomes[i - 2]) /\ Failed(outcomes[i - 1]) /\ Failed(outcomes[i]))
      => /\ i = Len(outcomes)
         /\ cyclesStarted = i
         /\ pc = "stopped"

\* a run that recovered once, then failed three times in a row, by failed steps
\* and by an unexpected error, and has stopped
C1_Witness ==
  /\ pc = "stopped"
  /\ outcomes = <<"ok", "fail", "error", "fail">>
  /\ cyclesStarted = 4

\* C2: step retry. In every cycle each step runs its command at most
\* maxRetries times; the step has returned success exactly when its last
\* command succeeded, and no command was run after that one; it has returned
\* failure only after maxRetries commands; the retry delay has been slept once
\* between two consecutive commands, never after a success and never after the
\* last failed command; the cycle runs at most 2 * maxRetries commands.
C2_StepRetry ==
  /\ \A s \in Steps :
       /\ stepRuns[s] <= maxRetries
       /\ stepResult[s] = "failed" =>
            (stepRuns[s] = maxRetries /\ stepDelays[s] = maxRetries - 1)
       /\ stepResult[s] = "ok" => stepDelays[s] = stepRuns[s] - 1
       /\ pc = Running(s) => stepDelays[s] = stepRuns[s] - 1
       /\ pc = Delay(s) => (stepDelays[s] = stepRuns[s] /\ stepRuns[s] < maxRetries)
  /\ stepRuns["capture"] + stepRuns["vision"] <= 2 * maxRetries
  /\ lastCapture.ok => (stepResult["capture"] = "ok" /\ pc = "stepGap")
  /\ lastVision.ok => (stepResult["vision"] = "ok" /\ LastOutcome = "ok")
  /\ pc = "captureDelay" => ~lastCapture.ok
  /\ pc = "visionDelay" => ~lastVision.ok
  /\ stepResult["vision"] = "failed" => ~lastVision.ok

\* a cycle that ran 2 * maxRetries commands: the capture step succeeded at its
\* last attempt, the vision step failed at every attempt
C2_Witness ==
  /\ maxRetries = MaxRetriesBound
  /\ stepResult["capture"] = "ok"
  /\ stepRuns["capture"] = maxRetries
  /\ stepResult["vision"] = "failed"
  /\ stepRuns["vision"] = maxRetries
  /\ stepDelays["vision"] = maxRetries - 1

\* C3: a capture command whose orchestrator failed as a whole is a failed
\* attempt for the scheduler.
C3_CaptureFailureSeen ==
  (lastCapture.ran /\ ~lastCapture.success) => ~lastCapture.ok

\* C5: after a successful cycle the scheduler sleeps the nextCheckMinutes
\* value of that cycle's final verdict, clamped into [2, 60].
C5_SleepIsProposedInterval ==
  (pc = "waiting" /\ LastOutcome = "ok") =>
     /\ lastVision.ncm.type = "number"
     /\ sleepMinutes = Max(2, Min(60, lastVision.ncm.val))

\* C7: single-shot mode. Started with --once and without --continuous the
\* scheduler never starts a second cycle.
C7_OnceRunsSingleCycle ==
  (argOnce /\ ~argContinuous) => cyclesStarted <= 1

\* C8: exit codes. The scheduler process ends with exit code 1 when the
\* consecutive-failure threshold has stopped the loop, and the vision command
\* ends with exit code 1 (so that its attempt fails) exactly when its pipeline
\* result is a failure or its prerequisites are missing.
C8_ExitCodes ==
  /\ (pc = "stopped" /\ consecutiveFailures >= maxConsecutiveFailures) =>
       exitCode = {1}
  /\ lastVision.ran =>
       (~lastVision.ok <=> (~lastVision.prereq \/ ~lastVision.success))

\* the number of cycles that have ended since the last successful one
TrailingFailures ==
  LET oks == {i \in 1..Len(outcomes) : outcomes[i] = "ok"}
  IN Len(outcomes) - (IF oks = {} THEN 0 ELSE CHOOSE i \in oks : \A j \in oks : j <= i)

\* C26 as stated: consecutive-failure accounting. The counter is 0 immediately
\* after every successful cycle and otherwise equals the number of failed
\* cycles since the last success; after a failed cycle below the threshold
\* the scheduler sleeps the short fixed recovery delay, min(default interval,
\* 5) minutes, instead of the proposed interval.
C26_RecoveryDelayAsStated ==
  /\ consecutiveFailures = TrailingFailures
  /\ (pc \in {"waiting", "waitingOnError"} /\ Failed(LastOutcome)) =>
       /\ consecutiveFailures < maxConsecutiveFailures
       /\ sleepMinutes = Min(intervalMinutes, 5)

\* C26, amended: the counter is 0 immediately after every successful cycle and
\* otherwise equals the number of cycles since the last success, each of
\* which failed or ended in an unexpected error; below the threshold the
\* scheduler sleeps min(default interval, 5) minutes after a cycle that
\* failed and 5 minutes, whatever the default interval, after a cycle that
\* ended in an unexpected error, never the proposed interval.
C26_FailureAccounting ==
  /\ consecutiveFailures = TrailingFailures
  /\ LastOutcome = "ok" => consecutiveFailures = 0
  /\ (pc = "waiting" /\ LastOutcome = "fail") =>
       /\ consecutiveFailures < maxConsecutiveFailures
       /\ sleepMinutes = Min(intervalMinutes, 5)
  /\ pc = "waitingOnError" =>
       /\ LastOutcome = "error"
       /\ consecutiveFailures < maxConsecutiveFailures
       /\ sleepMinutes = 5
  /\ (pc = "waiting" /\ Failed(LastOutcome)) => LastOutcome = "fail"
  /\ (pc = "stopped" /\ Failed(LastOutcome)) =>
       consecutiveFailures = maxConsecutiveFailures

\* with a default interval of 3 minutes: a cycle failed after a success, the
\* next one ended in an unexpected error, and the scheduler sleeps 5 minutes
\* with the counter at 2
C26_Witness ==
  /\ pc = "waitingOnError"
  /\ intervalMinutes = 3
  /\ outcomes = <<"ok", "fail", "error">>
  /\ consecutiveFailures = 2
  /\ sleepMinutes = 5

\* the scheduler is inside the vision step of the current cycle
InVisionStep == pc \in {"visionRunning", "visionDelay"}

\* C27: within a cycle the vision step is invoked only after the capture
\* step has succeeded; when the capture step fails after its retries the
\* vision step is not invoked in that cycle.
C27_VisionOnlyAfterCapture ==
  /\ (stepRuns["vision"] > 0 \/ InVisionStep \/ stepResult["vision"] # "none") =>
       /\ stepResult["capture"] = "ok"
       /\ stepRuns["capture"] > 0
  /\ stepResult["capture"] = "failed" =>
       /\ stepRuns["vision"] = 0
       /\ stepResult["vision"] = "none"
       /\ ~InVisionStep
       /\ LastOutcome = "fail"
  /\ pc = "stepGap" => (stepResult["capture"] = "ok" /\ stepRuns["vision"] = 0)

\* the second cycle's capture step has failed after all its retries and the
\* cycle has ended without a vision command, after a first cycle that ran one
C27_Witness ==
  /\ pc = "waiting"
  /\ outcomes = <<"ok", "fail">>
  /\ stepResult["capture"] = "failed"
  /\ stepRuns["capture"] = maxRetries
  /\ maxRetries > 1
  /\ stepRuns["vision"] = 0

\* the number of cycles in progress: runAnalysisCycle calls that have not ended
CyclesInProgress == cyclesStarted - Len(outcomes)
\* the scheduler is inside runAnalysisCycle
InCycle == pc \in {"captureRunning", "captureDelay", "stepGap", "visionRunning", "visionDelay"}
\* the commands of the current cycle that have ended: every retry delay and
\* every result of executeWithRetry follows the end of one command
CommandsEnded ==
  stepDelays["capture"] + stepDelays["vision"]
    + (IF stepResult["capture"] # "none" THEN 1 ELSE 0)
    + (IF stepResult["vision"] # "none" THEN 1 ELSE 0)
\* the commands of the current cycle that were spawned and have not ended
CommandsRunning == stepRuns["capture"] + stepRuns["vision"] - CommandsEnded

\* C28: cycles never overlap. At every moment at most one cycle is in
\* progress and at most one external command started by the scheduler is
\* running; a new cycle starts only after the previous cycle and the sleep
\* that follows it have ended.
C28_CyclesNeverOverlap ==
  /\ [](/\ CyclesInProgress \in {0, 1}
        /\ CyclesInProgress = 1 <=> InCycle
        /\ CommandsRunning \in {0, 1}
        /\ pc \in {"captureRunning", "visionRunning"} => CommandsRunning = 1
        /\ pc \in {"captureDelay", "stepGap", "visionDelay", "waiting"} =>
             CommandsRunning = 0
        /\ pc \in {"waiting", "waitingOnError"} => sleepMinutes > 0)
  /\ [][cyclesStarted' # cyclesStarted =>
           /\ cyclesStarted' = cyclesStarted + 1
           /\ CyclesInProgress = 0
           /\ CommandsRunning = 0 \/ LastOutcome = "error"
           /\ \/ pc = "init" /\ cyclesStarted = 0
              \/ pc \in {"waiting", "waitingOnError"} /\ outcomes # <<>>
           /\ pc' = "captureRunning"]_vars

\* the third cycle's vision command is running: two cycles and their sleeps
\* have ended, the capture command of this cycle ended after one retry
C28_Witness ==
  /\ pc = "visionRunning"
  /\ cyclesStarted = 3
  /\ Len(outcomes) = 2
  /\ stepRuns = [capture |-> 2, vision |-> 1]
  /\ CommandsRunning = 1

-----------------------------------------------------------------------------
(* The scheduler and the vision pipeline started in the same environment, with
   or without the API key: the scheduler is followed through its startup, up
   to the first command it spawns, the pipeline through one whole run on the
   screenshots it finds. *)

InitCredential ==
  /\ argOnce = FALSE
  /\ argContinuous = FALSE
  /\ hasApiKey \in BOOLEAN
  /\ maxRetries = 1
  /\ intervalMinutes = DefaultIntervalMinutes
  /\ cropEnabled = TRUE
  /\ horizon = 1
  /\ pc = "init"
  /\ cycleNumber = 1
  /\ consecutiveFailures = 0
  /\ attempt = 0
  /\ sleepMinutes = 0
  /\ exitCode = {}
  /\ cyclesStarted = 0
  /\ outcomes = <<>>
  /\ stepRuns = NoRuns
  /\ stepDelays = NoRuns
  /\ stepResult = NoResult
  /\ lastCapture = NoCapture
  /\ lastVision = NoVision
  /\ screenshots \in [Range(DefaultTimeframes) -> {"absent", "stale"}]
  /\ cropped = NoFiles
  /\ analysisDirExists = FALSE
  /\ analysisDir = {}
  /\ now = 0
  /\ CaptureIdle
  /\ PipelineIdle
  /\ CropIdle
  /\ SettingsIdle
  /\ ArgsIdle

NextCredential ==
  \/ Start
  \/ NextPipeline

SpecCredential == InitCredential /\ [][NextCredential]_vars

\* C29: when the API credential is absent the scheduler stops with a fatal
\* error (exit code 1) at startup, before starting any cycle or external
\* command, and the vision pipeline fails before making any call of the
\* reasoning service; the vision command ends with exit code 1 whatever
\* screenshots it finds.
C29_MissingCredentialIsFatal ==
  ~hasApiKey =>
    /\ pc \in {"init", "exited"}
    /\ pc = "exited" <=> exitCode = {1}
    /\ pc = "init" <=> exitCode = {}
    /\ cyclesStarted = 0
    /\ stepRuns = NoRuns
    /\ outcomes = <<>>
    /\ pipePc \in {"idle", "returned"}
    /\ calls = <<>>
    /\ imageFiles = <<>>
    /\ written = <<>>
    /\ analysisDir = {}
    /\ pipePc = "returned" => result = Failure("OPENAI_API_KEY")
    /\ \A shots \in [Range(DefaultTimeframes) -> {"absent", "stale"}] :
         /\ ~CheckPrerequisites(hasApiKey, shots)
         /\ VisionExitCode(CheckPrerequisites(hasApiKey, shots), FALSE, FALSE) = 1

\* without the key and with a screenshot of every timeframe in place, the
\* scheduler has exited with code 1 and the pipeline has returned its failure
C29_Witness ==
  /\ ~hasApiKey
  /\ screenshots = AllFiles
  /\ pc = "exited"
  /\ exitCode = {1}
  /\ pipePc = "returned"
  /\ result = Failure("OPENAI_API_KEY")
  /\ calls = <<>>

\* C30: cycles are identified by an increasing integer. The first cycle has
\* number 1 and every cycle the scheduler starts afterwards has a number
\* strictly greater than the number of the cycle before it, and so than every
\* earlier cycle's, whether that cycle succeeded, failed or ended in an
\* unexpected error.
C30_CycleNumbersIncrease ==
  [][cyclesStarted' # cyclesStarted =>
       IF cyclesStarted = 0 THEN cycleNumber' = 1
       ELSE cycleNumber' > cycleNumber]_vars

-----------------------------------------------------------------------------
(* The chart settings singleton of part_000 and the capture sessions of
   part_001 that derive their settings from it: every session calls
   applyChartSettingsForTimeframe for its own timeframe, and the sessions of
   one orchestrator run interleave at every await. A timeframe label is
   modelled by its leading digits and the unit that follows them; a string of
   digits alone, as in the values of the two tables, has the unit "". *)

Label(digits, unit) == [digits |-> digits, unit |-> unit]
NoInterval == Label(0, "none")

\* the labels a caller may configure: two of the default list, and two that
\* the tables of the code do not hold ("30m", "4h")
SettingsLabels == {Label(5, "m"), Label(1, "h"), Label(30, "m"), Label(4, "h")}

\* the duration a label or a resolution string denotes, in minutes; a bare
\* number is a number of minutes
DurationMinutes(label) ==
  CASE label.unit = "h" -> 60 * label.digits
    [] label.unit = "d" -> 1440 * label.digits
    [] OTHER -> label.digits

\* const timeframeToMinutes and const timeframeMap hold the same five labels
\* with the same five numbers, as numbers in the one and as strings in the other
TimeframeToMinutes(timeframe) ==
  CASE timeframe = Label(5, "m") -> 5
    [] timeframe = Label(15, "m") -> 15
    [] timeframe = Label(1, "h") -> 60
    [] timeframe = Label(2, "h") -> 120
    [] timeframe = Label(6, "h") -> 360
    [] OTHER -> 0

\* parseInt of a label: its leading digits
ParseInt(label) == label.digits

\* timeframeToMinutes[timeframe] || parseInt(timeframe)
ResolutionMinutes(timeframe) ==
  IF TimeframeToMinutes(timeframe) # 0 THEN TimeframeToMinutes(timeframe)
  ELSE ParseInt(timeframe)

\* timeframeMap[timeframe] || timeframe
IntervalFor(timeframe) ==
  IF TimeframeToMinutes(timeframe) # 0 THEN Label(TimeframeToMinutes(timeframe), "")
  ELSE timeframe

\* a source of a pane: its type, whether it has a state member, and the
\* interval member of that state
Source(type, hasState, interval) ==
  [type |-> type, hasState |-> hasState, interval |-> interval]

\* what TRADING_VIEW_STATE.json may hold: a main series on some interval,
\* then a study with or without state, or a second main series
LoadedSettings ==
  {<<Source("MainSeries", TRUE, Label(15, "")), second>> :
     second \in {Source("Study", TRUE, NoInterval), Source("Study", FALSE, NoInterval),
                 Source("MainSeries", TRUE, Label(240, ""))}}

\* the interval is assigned in every main series that has a state
WithInterval(settings, interval) ==
  [k \in DOMAIN settings |->
     IF settings[k].type = "MainSeries" /\ settings[k].hasState
     THEN [settings[k] EXCEPT !.interval = interval]
     ELSE settings[k]]

\* a getSettingsForTimeframe that assigns the interval in this.settings itself
GetSettingsInPlace(shared, timeframe) ==
  [shared |-> WithInterval(shared, IntervalFor(timeframe)),
   settings |-> WithInterval(shared, IntervalFor(timeframe))]

\* ChartSettingsManager.getSettingsForTimeframe: the interval is assigned in
\* a copy made by JSON.parse(JSON.stringify(this.settings)); every member of
\* the settings is a string, a number, a boolean, an array or an object, so
\* the copy has the members of the original. `shared` is this.settings after
\* the call, `settings` the value returned
GetSettingsForTimeframe(shared, timeframe) ==
  [shared |-> shared,
   settings |-> WithInterval(shared, IntervalFor(timeframe))]

NoArgs == [settingsData |-> <<>>, resolution |-> 0]
NoStorage == [state |-> <<>>, lastInterval |-> NoInterval]
NewSession(timeframe) ==
  [timeframe |-> timeframe, stage |-> "apply", args |-> NoArgs, storage |-> NoStorage]

InitSettings ==
  /\ SchedulerIdle
  /\ CaptureIdle
  /\ PipelineIdle
  /\ CropIdle
  /\ ArgsIdle
  /\ sharedSettings \in LoadedSettings
  /\ sessions \in UNION {[1..n -> {NewSession(tf) : tf \in SettingsLabels}] :
                           n \in 1..MaxRequested}

\* applyChartSettingsForTimeframe up to its first await: the settings of the
\* timeframe, the resolution, and the call of page.evaluate with both
ApplyChartSettingsForTimeframe(i) ==
  /\ i \in 1..Len(sessions)
  /\ sessions[i].stage = "apply"
  /\ LET got == GetSettingsForTimeframe(sharedSettings, sessions[i].timeframe) IN
       /\ sharedSettings' = got.shared
       /\ sessions' = [sessions EXCEPT
                         ![i].stage = "evaluating",
                         ![i].args = [settingsData |-> got.settings,
                                      resolution |->
                                        ResolutionMinutes(sessions[i].timeframe)]]
  /\ UNCHANGED <<schedVars, fsVars, capVars, pipeVars, cropVars, argsVars>>

\* page.evaluate ends: the function has written the keys of localStorage in
\* the page, or localStorage has thrown and the function's catch has
\* swallowed it, or the call itself throws; then page.reload begins
EvaluateEnds(i) ==
  /\ i \in 1..Len(sessions)
  /\ sessions[i].stage = "evaluating"
  /\ \E how \in {"ok", "caught", "throws"} :
       sessions' = [sessions EXCEPT
                      ![i].stage = IF how = "throws" THEN "threw" ELSE "reloading",
                      ![i].storage =
                        IF how = "ok"
                        THEN [state |-> sessions[i].args.settingsData,
                              lastInterval |-> Label(sessions[i].args.resolution, "")]
                        ELSE @]
  /\ UNCHANGED <<schedVars, fsVars, capVars, pipeVars, cropVars, argsVars, sharedSettings>>

\* page.reload and the wait after it end
ReloadEnds(i) ==
  /\ i \in 1..Len(sessions)
  /\ sessions[i].stage = "reloading"
  /\ \E ok \in BOOLEAN :
       sessions' = [sessions EXCEPT ![i].stage = IF ok THEN "returned" ELSE "threw"]
  /\ UNCHANGED <<schedVars, fsVars, capVars, pipeVars, cropVars, argsVars, sharedSettings>>

NextSettings ==
  \/ \E i \in 1..MaxRequested : ApplyChartSettingsForTimeframe(i)
  \/ \E i \in 1..MaxRequested : EvaluateEnds(i)
  \/ \E i \in 1..MaxRequested : ReloadEnds(i)

SpecSettings == InitSettings /\ [][NextSettings]_vars

\* the session has handed its settings to page.evaluate
Injected(i) == sessions[i].stage # "apply"

\* the intervals of the main series of a settings blob
MainSeriesIntervals(settings) ==
  {settings[k].interval : k \in {j \in DOMAIN settings : settings[j].type = "MainSeries"}}

\* C31: per-timeframe settings are derived without mutating shared state.
\* getSettingsForTimeframe never changes the shared chart-settings singleton,
\* so for every interleaving of concurrent capture sessions each session
\* injects a settings blob whose main series have the interval of the
\* session's own timeframe, and what the page stores is that blob.
C31_SettingsDerivedWithoutMutation ==
  /\ [][sharedSettings' = sharedSettings]_vars
  /\ [](sharedSettings \in LoadedSettings)
  /\ [](\A i \in 1..Len(sessions) :
          /\ Injected(i) =>
               /\ MainSeriesIntervals(sessions[i].args.settingsData)
                    = {IntervalFor(sessions[i].timeframe)}
               /\ Len(sessions[i].args.settingsData) = Len(sharedSettings)
          /\ sessions[i].storage # NoStorage =>
               sessions[i].storage.state = sessions[i].args.settingsData)

\* two sessions on different timeframes have both injected and returned, on
\* a singleton with two main series that are still on their loaded intervals
C31_Witness ==
  /\ Len(sessions) = 2
  /\ sessions[1].timeframe = Label(5, "m")
  /\ sessions[2].timeframe = Label(1, "h")
  /\ sessions[1].stage = "returned"
  /\ sessions[2].stage = "returned"
  /\ sessions[1].storage # NoStorage
  /\ sessions[2].storage # NoStorage
  /\ sessions[1].storage.state[1].interval = Label(5, "")
  /\ sessions[2].storage.state[2].interval = Label(60, "")
  /\ sharedSettings[2] = Source("MainSeries", TRUE, Label(240, ""))

\* C32: for every timeframe label the caller may configure, the resolution
\* injected into the page equals the label's duration in minutes and denotes
\* the same duration as the interval written into that timeframe's settings
\* blob (1h gives 60 in both).
C32_ResolutionIsDuration ==
  \A i \in 1..Len(sessions) :
    Injected(i) =>
      /\ sessions[i].args.resolution = DurationMinutes(sessions[i].timeframe)
      /\ \A interval \in MainSeriesIntervals(sessions[i].args.settingsData) :
           DurationMinutes(interval) = sessions[i].args.resolution

\* C33: after every successful cycle the scheduler's sleep is between 2 and
\* 60 minutes, whatever the result directory holds (no directory, no result
\* file, an unparsable file, a file without a numeric nextCheckMinutes) and
\* whatever default interval is configured.
C33_SleepWithinBounds ==
  pc = "extracted" => sleepMinutes \in MIN_INTERVAL..MAX_INTERVAL

\* C34: persistence is all-or-nothing with respect to the pipeline result. A
\* pipeline run whose result is a failure has written neither the structured
\* file nor the report, and a run whose result is a success (saving is
\* enabled) has written both.
C34_PersistenceAllOrNothing ==
  pipePc = "returned" =>
    IF result.success THEN Saved("json") /\ Saved("txt")
    ELSE ~Saved("json") /\ ~Saved("txt")

\* C35: when cropping is enabled in a cycle, the image the vision pipeline
\* analyzes for a captured timeframe is the cropped image produced from that
\* cycle's screenshot; when cropping is disabled or fails for that timeframe,
\* it is that cycle's original screenshot, never a cropped file left by an
\* earlier cycle.
C35_CropOfThisCycle ==
  pc = "visionRunning" =>
    LET imgs == ImageFiles(DefaultTimeframes, screenshots, cropped) IN
    \A i \in 1..Len(imgs) :
      screenshots[imgs[i].timeframe] = "fresh" =>
        /\ imgs[i].content = "fresh"
        /\ ~cropEnabled => imgs[i].path = "original"

-----------------------------------------------------------------------------
(* The command line of the scheduler: parseArgs of auto-trader.ts applied to
   an argument list, and what the two commands of a cycle make of the
   arguments the scheduler hands them. The argument list is made of at most
   MaxOptions different options, each with its value, in any order. *)

\* options of the scheduler, with a value a caller may give them
ArgOptions ==
  {<<"--model", "gpt-4o-mini">>, <<"--no-sound">>, <<"--sound-volume", "50">>,
   <<"--timeframes", "5m,1h">>, <<"--no-crop">>}

RECURSIVE Flatten(_)
Flatten(groups) ==
  IF groups = <<>> THEN <<>> ELSE Head(groups) \o Flatten(Tail(groups))

\* the command lines: the options of a list of different options
CommandLines ==
  {Flatten(order) :
     order \in {o \in UNION {[1..n -> ArgOptions] : n \in 0..MaxOptions} :
                  \A i, j \in 1..Len(o) : i # j => o[i] # o[j]}}

\* timeframesArg.split(","), on the lists that occur
Split(list) ==
  CASE list = "5m,15m,1h,2h,6h" -> DefaultTimeframes
    [] list = "5m,1h" -> <<"5m", "1h">>
    [] OTHER -> <<list>>

\* the chart capture arguments that --timeframes builds, and the default ones
ChartCaptureArgs(timeframes) ==
  <<"--method", "localStorage", "--multi-timeframe", "--timeframes", timeframes>>

\* parseArgs, one iteration of its loop on args[i]: --timeframes replaces the
\* chart capture arguments, --model replaces the vision arguments,
\* --no-sound and --sound-volume append to them
ParseArg(args, i, st) ==
  LET arg == args[i]
      hasValue == i + 1 <= Len(args)
  IN
  IF arg = "--timeframes" /\ hasValue
  THEN [st EXCEPT !.chartCaptureArgs = ChartCaptureArgs(args[i + 1]), !.next = i + 2]
  ELSE IF arg = "--model" /\ hasValue
  THEN [st EXCEPT !.visionAiArgs = <<"--model", args[i + 1]>>, !.next = i + 2]
  ELSE IF arg = "--no-sound"
  THEN [st EXCEPT !.visionAiArgs = @ \o <<"--no-sound">>, !.next = i + 1]
  ELSE IF arg = "--sound-volume" /\ hasValue
  THEN [st EXCEPT !.visionAiArgs = @ \o <<"--sound-volume", args[i + 1]>>,
                  !.next = i + 2]
  ELSE IF arg = "--no-crop"
  THEN [st EXCEPT !.cropEnabled = FALSE, !.next = i + 1]
  ELSE [st EXCEPT !.next = i + 1]

RECURSIVE ParseLoop(_, _)
ParseLoop(args, st) ==
  IF st.next > Len(args) THEN st ELSE ParseLoop(args, ParseArg(args, st.next, st))

\* parseArgs and the merge with DEFAULT_CONFIG in main: the loop, the default
\* chart capture arguments, the crop option
ParseArgs(args) ==
  LET st == ParseLoop(args, [chartCaptureArgs |-> <<>>, visionAiArgs |-> <<>>,
                             cropEnabled |-> TRUE, next |-> 1])
      chart == IF st.chartCaptureArgs = <<>> THEN ChartCaptureArgs("5m,15m,1h,2h,6h")
               ELSE st.chartCaptureArgs
  IN [chartCaptureArgs |-> IF st.cropEnabled THEN chart \o <<"--crop-screenshots">>
                           ELSE chart,
      visionAiArgs |-> st.visionAiArgs,
      parsed |-> TRUE]

\* the value that follows the first `option` of an argument list, or "none"
ValueOf(args, option) ==
  LET at == {i \in 1..(Len(args) - 1) : args[i] = option}
  IN IF at = {} THEN "none" ELSE args[(CHOOSE i \in at : \A j \in at : i <= j) + 1]

\* index.ts: the timeframes the capture command works on
CaptureTimeframes(args) ==
  IF ValueOf(args, "--timeframes") = "none" THEN DefaultTimeframes
  ELSE Split(ValueOf(args, "--timeframes"))

\* vision-ai.ts: the timeframes executeVisionAnalysis looks for, those of
\* --timeframes or the default list
VisionTimeframes(args) ==
  IF ValueOf(args, "--timeframes") = "none" THEN DefaultTimeframes
  ELSE Split(ValueOf(args, "--timeframes"))

\* checkPrerequisites of vision-ai.ts looks for the screenshots of the
\* default list, whatever its arguments
PrerequisiteTimeframes(args) == DefaultTimeframes

InitArgs ==
  /\ SchedulerIdle
  /\ CaptureIdle
  /\ PipelineIdle
  /\ CropIdle
  /\ SettingsIdle
  /\ argv \in CommandLines
  /\ traderConfig = NoConfig

\* main: const args = parseArgs(); const config = {...DEFAULT_CONFIG, ...args}
Main ==
  /\ ~traderConfig.parsed
  /\ traderConfig' = ParseArgs(argv)
  /\ UNCHANGED <<schedVars, fsVars, capVars, pipeVars, cropVars, settingsVars, argv>>

NextArgs == Main

SpecArgs == InitArgs /\ [][NextArgs]_vars

\* C36: when the scheduler is started with a custom timeframe list T, both
\* steps of every cycle work on T: the capture step captures the timeframes
\* of T, and the vision step checks for and analyzes only timeframes of T.
C36_BothStepsOnCustomTimeframes ==
  (traderConfig.parsed /\ ValueOf(argv, "--timeframes") # "none") =>
    LET T == Split(ValueOf(argv, "--timeframes")) IN
    /\ CaptureTimeframes(traderConfig.chartCaptureArgs) = T
    /\ Range(VisionTimeframes(traderConfig.visionAiArgs)) \subseteq Range(T)
    /\ Range(PrerequisiteTimeframes(traderConfig.visionAiArgs)) \subseteq Range(T)

\* `group` occurs in `args` as it was given
Forwarded(args, group) ==
  \E i \in 1..Len(args) :
    /\ i + Len(group) - 1 <= Len(args)
    /\ SubSeq(args, i, i + Len(group) - 1) = group

\* C40: the vision-step arguments the scheduler derives from its command
\* line do not depend on option order. For every ordering of --model,
\* --no-sound and --sound-volume, each option given is forwarded to the
\* vision step.
C40_VisionOptionsForwarded ==
  traderConfig.parsed =>
    \A group \in {g \in ArgOptions :
                     Head(g) \in {"--model", "--no-sound", "--sound-volume"}} :
      Forwarded(argv, group) => Forwarded(traderConfig.visionAiArgs, group)

-----------------------------------------------------------------------------
(* Progress of the scheduler. Every action of Next is the end of something
   the scheduler awaits: the close of a spawned command (CaptureCloses,
   VisionCloses) or the exception of spawn (CycleThrows), the end of a
   setTimeout (RetryDelayEnds, StepGapEnds, WaitEnds, WaitOnErrorEnds), or the
   synchronous beginning of runAutoTrader (Start). That every command and
   every sleep eventually finishes is weak fairness of Next. The scheduler is
   followed for horizon cycles: the sleep after cycle number horizon is not
   followed to its end. Here the horizon is one cycle more than the failure
   threshold, and the interval is the default one: the interval decides how
   long a sleep lasts, and a sleep of any length is taken to finish. *)

ProgressCycles == maxConsecutiveFailures + 1
InitProgress == InitScheduler({DefaultIntervalMinutes}, ProgressCycles)

SpecProgress == InitProgress /\ [][Next]_vars /\ WF_vars(Next)

\* runAutoTrader has left its loop, or the process has exited
Terminated == pc \in {"stopped", "exited"}

\* runAutoTrader awaits waitMinutes
Sleeping == pc \in {"waiting", "waitingOnError"}

\* no cycle that has ended was a success
EveryCycleFailed == \A k \in 1..Len(outcomes) : outcomes[k] # "ok"

\* the last maxConsecutiveFailures cycles have all failed
LastCyclesFailed ==
  /\ Len(outcomes) >= maxConsecutiveFailures
  /\ \A k \in (Len(outcomes) - maxConsecutiveFailures + 1)..Len(outcomes) :
       outcomes[k] # "ok"

\* C39: progress. When every command and every sleep eventually finishes,
\* every started cycle eventually ends, and after the end of a cycle the
\* scheduler starts the next cycle or terminates; a run in which every cycle
\* fails eventually terminates; a continuous run terminates only after
\* maxConsecutiveFailures failed cycles in a row, so one in which a cycle
\* succeeds at least once in every three never terminates by itself.
C39_Progress ==
  /\ InCycle ~> ~InCycle
  /\ (Sleeping /\ cyclesStarted < horizon) ~> InCycle
  /\ []((~InCycle /\ cyclesStarted > 0) => (Sleeping \/ Terminated))
  /\ ([]EveryCycleFailed) => <>Terminated
  /\ []((argContinuous /\ pc = "stopped") => LastCyclesFailed)

\* a continuous run has gone through two failed cycles, a success and another
\* failed cycle, and sleeps before its next cycle
C39_Witness ==
  /\ argContinuous
  /\ outcomes \in {<<f1, f2, "ok", f4>> : f1 \in {"fail", "error"},
                    f2 \in {"fail", "error"}, f4 \in {"fail", "error"}}
  /\ Sleeping

====
